---- MODULE Spec2Model ----
(***************************************************************************)
(* A model of pyangbind/lib/yangtypes.py: the YANGList keyed collection,   *)
(* the YANGBaseClass tree-node wrapper (changed flag, presence, choice     *)
(* eviction) and the registrations they make in the path helper, the       *)
(* RestrictedClassType and TypedList factories with the classes they       *)
(* cache, the ReferenceType leafref, and YANGDynClass called on its own.   *)
(*                                                                         *)
(* The path helper (pyangbind/lib/xpathhelper.py) and the accessors and    *)
(* tables that the code generator emits (_set_<leaf>, _get_<leaf>,         *)
(* _unset_<leaf>, __choices__, the container initialiser) are not part of  *)
(* yangtypes.py; they are modelled from their documented contract and are  *)
(* marked as such where they are defined.                                  *)
(***************************************************************************)
EXTENDS Integers, Sequences, FiniteSets, TLC

VARIABLES
    schema,      \* which compiled schema the instance tree was built for
    pathHelper,  \* whether a path helper is attached (self._path_helper)
    nodes,       \* the statically declared nodes: name -> [changed, cpresent, val]
    members,     \* YANGList._members, an OrderedDict: sequence of member records
    index,       \* the path helper's registrations: set of [path, id]
    last,        \* the last call made and how it ended
    rclass,      \* the class RestrictedClassType returned last
    made,        \* the last call of that class and how it ended
    tseq,        \* a leaf-list built on its own: a TypedList and its settings
    xref,        \* a leafref, and the nodes its path can name
    dyn,         \* the last call of YANGDynClass and the node it returned
    memo,        \* the classes RestrictedClassType__inner has built
    dec,         \* the classes RestrictedPrecisionDecimalType has built, the last call
    hooks        \* the fields of the static tree that have an _unset_<field> method

vars == <<schema, pathHelper, nodes, members, index, last, rclass, made, tseq,
          xref, dyn, memo, dec, hooks>>

(***************************************************************************)
(* Bounds of the model.                                                    *)
(***************************************************************************)
\* longest leaf-list the model grows
MaxSeqLen == 2
\* number of distinct uuid strings uuid.uuid1() is let to return
MaxUuid == 2

(***************************************************************************)
(* Python evaluates an argument once, before the call.  Bind(x, F) does    *)
(* the same: x is evaluated once and F is applied to its value.            *)
(***************************************************************************)
Bind(x, F(_)) == CHOOSE y \in {F(v) : v \in {x}} : TRUE

(***************************************************************************)
(* Python values.  A value keeps its type next to its text, so that the    *)
(* integer 1 and the text "1" are different dictionary keys, as in Python. *)
(***************************************************************************)
StrV(s) == [t |-> "str", s |-> s]
IntV(s) == [t |-> "int", s |-> s]
None == [t |-> "none", s |-> "None"]

\* six.text_type(v), and what "%s" % v renders
text_type(v) == StrV(v.s)

\* the decimal texts int() parses, over the inputs of the model
NumericTexts == {"0", "1", "2"}

\* str.split(" ")
split(s) ==
    LET n == Len(s)
        RECURSIVE F(_, _)
        F(i, start) ==
            IF i > n THEN <<SubSeq(s, start, n)>>
            ELSE IF SubSeq(s, i, i) = " "
                 THEN <<SubSeq(s, start, i - 1)>> \o F(i + 1, i + 1)
                 ELSE F(i + 1, start)
    IN F(1, 1)

\* str.rstrip(" ")
RECURSIVE rstrip(_)
rstrip(s) ==
    IF Len(s) > 0 /\ SubSeq(s, Len(s), Len(s)) = " "
    THEN rstrip(SubSeq(s, 1, Len(s) - 1))
    ELSE s

\* s[:-1]
DropLast(s) == SubSeq(s, 1, Len(s) - 1)

\* " " in s
HasSpace(s) == \E i \in 1..Len(s) : SubSeq(s, i, i) = " "

(***************************************************************************)
(* The compiled schemas.  Four hold one list under the root (the lists a,  *)
(* b, c of tests/misc and a keyless list); "tree" holds containers, leaves *)
(* in nested choices, a presence container and a leaf-list.                *)
(***************************************************************************)
ListSchemas == {"single_str", "single_int", "composite", "keyless"}
Schemas == ListSchemas \cup {"tree"}

\* keyname given to YANGListType; "" stands for False (a list without key)
keyname(sc) ==
    CASE sc = "single_str" -> "foo"
      [] sc = "single_int" -> "one"
      [] sc = "composite" -> "foo bar"
      [] OTHER -> ""

\* yang_name given to YANGListType
list_yang_name(sc) ==
    CASE sc = "single_str" -> "a"
      [] sc = "single_int" -> "c"
      [] sc = "composite" -> "b"
      [] OTHER -> "k"

\* the leaves a list member may carry (unused ones stay None)
LeafNames == {"foo", "bar", "one", "cfg"}

\* base type of each leaf
LeafBase(name) == IF name = "one" THEN "int" ELSE "str"

\* the value a leaf reads before it is set: six.text_type() or int()
LeafDefault(name) == IF LeafBase(name) = "int" THEN IntV("0") ELSE StrV("")

\* leaves of the contained class under each schema
MemberLeaves(sc) ==
    CASE sc = "single_str" -> {"foo", "cfg"}
      [] sc = "single_int" -> {"one", "cfg"}
      [] sc = "composite" -> {"foo", "bar", "cfg"}
      [] OTHER -> {"cfg"}

(***************************************************************************)
(* The static tree.                                                        *)
(***************************************************************************)
NoParent == "-"
NoChoice == [choices |-> <<>>, cases |-> <<>>]

TreeNodes == {"root", "c", "lq", "l1", "l2", "l3", "l4", "d", "d1", "ll"}

NodesOf(sc) == IF sc = "tree" THEN TreeNodes ELSE {"root", "lst"}

\* self._parent
Parent(n) ==
    CASE n = "root" -> NoParent
      [] n \in {"c", "lq", "lst"} -> "root"
      [] n = "d1" -> "d"
      [] OTHER -> "c"

\* the children of a container, in declaration order
Children(n) ==
    CASE n = "root" -> <<"c", "lq">>
      [] n = "c" -> <<"l1", "l2", "l3", "l4", "d", "ll">>
      [] n = "d" -> <<"d1">>
      [] OTHER -> <<>>

\* self._is_container / is_leaf / the TypedList base
Kind(n) ==
    CASE n \in {"root", "c", "d"} -> "container"
      [] n = "lst" -> "list"
      [] n = "ll" -> "leaflist"
      [] OTHER -> "leaf"

\* self._presence
Presence(n) == n = "c"

\* self._choice: (nested_choices, nested_cases_in_use), or False
ChoiceOf(n) ==
    CASE n = "c" -> [choices |-> <<"top">>, cases |-> <<"p">>]
      [] n = "lq" -> [choices |-> <<"top">>, cases |-> <<"q">>]
      [] n = "l1" -> [choices |-> <<"ch", "in">>, cases |-> <<"a", "x">>]
      [] n = "l2" -> [choices |-> <<"ch", "in">>, cases |-> <<"a", "y">>]
      [] n = "l3" -> [choices |-> <<"ch">>, cases |-> <<"a">>]
      [] n = "l4" -> [choices |-> <<"ch">>, cases |-> <<"b">>]
      [] OTHER -> NoChoice

\* a node as its constructor leaves it when no value is given
Fresh(n) ==
    [changed |-> FALSE, cpresent |-> FALSE,
     val |-> IF Kind(n) = "leaflist" THEN <<>> ELSE None]

RECURSIVE Descendants(_)
Descendants(n) ==
    LET cs == {Children(n)[i] : i \in 1..Len(Children(n))}
    IN cs \cup UNION {Descendants(c) : c \in cs}

(***************************************************************************)
(* The choice table and the unset hooks of a container: generated code.    *)
(***************************************************************************)
Prefix(s, k) == SubSeq(s, 1, k)

RECURSIVE Dedup(_)
Dedup(s) ==
    IF Len(s) = 0 THEN <<>>
    ELSE LET r == Dedup(SubSeq(s, 1, Len(s) - 1))
             x == s[Len(s)]
         IN IF \E i \in 1..Len(r) : r[i] = x THEN r ELSE Append(r, x)

RECURSIVE Flatten(_)
Flatten(ss) == IF Len(ss) = 0 THEN <<>> ELSE Head(ss) \o Flatten(Tail(ss))

\* field f of a container lies in the (nested) choice cp
InChoicePath(f, cp) ==
    /\ Len(ChoiceOf(f).choices) >= Len(cp)
    /\ Prefix(ChoiceOf(f).choices, Len(cp)) = cp

\* self.__choices__[cp].items(): per case path, the fields declared under it
choices_items(n, cp) ==
    LET ch == SelectSeq(Children(n), LAMBDA f : InChoicePath(f, cp))
        keys == Dedup([i \in 1..Len(ch) |-> Prefix(ChoiceOf(ch[i]).cases, Len(cp))])
    IN [i \in 1..Len(keys) |->
          [cases |-> keys[i],
           fields |-> SelectSeq(ch, LAMBDA f : Prefix(ChoiceOf(f).cases, Len(cp)) = keys[i])]]

\* hasattr(self, "_unset_%s" % elem): the generator emits one per declared field;
\* hooks holds the fields whose method the class does have
hasattr_unset(f) == f \in hooks

\* _unset_<f>(): the field is replaced by a newly constructed default node
unset_hook(st, f) ==
    Bind(Descendants(f) \cup {f},
         LAMBDA gone : [m \in DOMAIN st |-> IF m \in gone THEN Fresh(m) ELSE st[m]])

(***************************************************************************)
(* YANGBaseClass._set                                                      *)
(***************************************************************************)
\* a plausible slip: only the innermost nesting level is evicted
EvictSeq_innermost(n, choice) ==
    LET depth == Len(choice.choices)
        items == choices_items(n, choice.choices)
        other == SelectSeq(items, LAMBDA it : it.cases # choice.cases)
    IN IF depth = 0 THEN <<>> ELSE Flatten([i \in 1..Len(other) |-> other[i].fields])

\* the fields whose unset hook _set(choice) looks up, in the order it visits them
EvictSeq(n, choice) ==
    LET depth == Len(choice.choices)
        level(l) ==
            LET items == choices_items(n, Prefix(choice.choices, l))
                other == SelectSeq(items, LAMBDA it : it.cases # Prefix(choice.cases, l))
            IN Flatten([i \in 1..Len(other) |-> other[i].fields])
    IN Flatten([j \in 1..depth |-> level(depth + 1 - j)])

\* an eviction loop that looks for every hook before it calls the first
evict_atomic(st, fields) ==
    IF \E i \in 1..Len(fields) : ~hasattr_unset(fields[i])
    THEN [st |-> st, err |-> "AttributeError"]
    ELSE [st |-> [m \in DOMAIN st |->
                    IF \E i \in 1..Len(fields) : m \in Descendants(fields[i]) \cup {fields[i]}
                    THEN Fresh(m) ELSE st[m]],
          err |-> "none"]

\* the eviction loop: stops with AttributeError at the first field without a hook
RECURSIVE evict(_, _)
evict(st, fields) ==
    IF Len(fields) = 0 THEN [st |-> st, err |-> "none"]
    ELSE IF ~hasattr_unset(Head(fields)) THEN [st |-> st, err |-> "AttributeError"]
    ELSE Bind(<<unset_hook(st, Head(fields)), Tail(fields)>>,
              LAMBDA a : evict(a[1], a[2]))

\* a plausible slip: the changed transition stops at the node itself
YANGBaseClass_set_local(st, n, choice) ==
    Bind(evict(st, EvictSeq(n, choice)), LAMBDA r :
        IF r.err # "none" THEN r
        ELSE [st |-> [r.st EXCEPT ![n].changed = TRUE], err |-> "none"])

RECURSIVE YANGBaseClass_set(_, _, _)
YANGBaseClass_set(st, n, choice) ==
    Bind(evict(st, EvictSeq(n, choice)), LAMBDA r :
        IF r.err # "none" THEN r
        ELSE Bind([r.st EXCEPT ![n].changed = TRUE,
                               ![n].cpresent = IF Presence(n) THEN TRUE ELSE @],
                  LAMBDA st1 :
                      IF Parent(n) = NoParent
                      THEN [st |-> st1, err |-> "none"]
                      ELSE YANGBaseClass_set(st1, Parent(n), ChoiceOf(n))))

(***************************************************************************)
(* The record of the last call.                                            *)
(***************************************************************************)
NoLeaves == [l \in LeafNames |-> None]
NoObj == [isNone |-> TRUE, wrapped |-> FALSE, leaves |-> NoLeaves]

\* op: the call; n: the node it was made on; k: the key or value it was given or
\* derived; obj: the object or keyword arguments it was given; err: the exception
\* it raised; evicted: the fields it replaced by default nodes
CallE(op, n, k, obj, err, evicted) ==
    [op |-> op, n |-> n, k |-> k, obj |-> obj, err |-> err, evicted |-> evicted]

Call(op, n, k, obj, err) == CallE(op, n, k, obj, err, {})

\* the fields that held something before a call and are default nodes after it
Reset(before, after) ==
    {m \in DOMAIN before : before[m] # Fresh(m) /\ after[m] = Fresh(m)}

(***************************************************************************)
(* Operations on the static tree.                                          *)
(***************************************************************************)
TreeLeaves == {n \in TreeNodes : Kind(n) = "leaf"}
TreeValues == {StrV("v")}

\* the generated _set_<f>(v): construct the new node with v (YANGBaseClass.__init__
\* runs _set() because a value is given), then store it in the field
generated_set(st, f, v) ==
    Bind(YANGBaseClass_set([st EXCEPT ![f] = [Fresh(f) EXCEPT !.val = v]], f, NoChoice),
         LAMBDA r : IF r.err # "none"
                    THEN [st |-> [r.st EXCEPT ![f] = st[f]], err |-> r.err]
                    ELSE r)

SetLeaf(f, v) ==
    /\ schema = "tree"
    /\ \E r \in {generated_set(nodes, f, v)} :
          /\ nodes' = r.st
          /\ last' = CallE("set_leaf", f, v, NoObj, r.err, Reset(nodes, r.st))
    /\ UNCHANGED <<rclass, made, tseq, xref, dyn, memo, schema, pathHelper, members, index, dec, hooks>>

UnsetField(f) ==
    /\ schema = "tree"
    /\ hasattr_unset(f)
    /\ nodes' = unset_hook(nodes, f)
    /\ last' = Call("unset", f, None, NoObj, "none")
    /\ UNCHANGED <<rclass, made, tseq, xref, dyn, memo, schema, pathHelper, members, index, dec, hooks>>

\* YANGBaseClass._set_present
YANGBaseClass_set_present(st, n, present) ==
    IF Kind(n) # "container" THEN [st |-> st, err |-> "AttributeError"]
    ELSE Bind([st EXCEPT ![n].cpresent = present], LAMBDA st1 :
             IF present THEN YANGBaseClass_set(st1, n, NoChoice)
             ELSE [st |-> st1, err |-> "none"])

\* YANGBaseClass._present
YANGBaseClass_present(st, n) ==
    IF Kind(n) # "container" \/ ~Presence(n) THEN None
    ELSE IF st[n].cpresent THEN StrV("True") ELSE StrV("False")

SetPresent(n, present) ==
    /\ schema = "tree"
    /\ \E r \in {YANGBaseClass_set_present(nodes, n, present)} :
          /\ nodes' = r.st
          /\ last' = CallE("set_present", n,
                           IF present THEN StrV("True") ELSE StrV("False"),
                           NoObj, r.err, Reset(nodes, r.st))
    /\ UNCHANGED <<rclass, made, tseq, xref, dyn, memo, schema, pathHelper, members, index, dec, hooks>>

(***************************************************************************)
(* RestrictedClassType: the class it returns, and what calling that class  *)
(* with a value does (RestrictedClass.__new__, then RestrictedClass.       *)
(* __init__).  Texts are TLA+ strings, a character is a string of length 1.*)
(***************************************************************************)
CharAt(s, i) == SubSeq(s, i, i)
StartsWith(s, p) == Len(s) >= Len(p) /\ SubSeq(s, 1, Len(p)) = p

Digit == [c \in {"0", "1", "2", "3", "4", "5", "6", "7", "8", "9"} |->
            CASE c = "0" -> 0 [] c = "1" -> 1 [] c = "2" -> 2 [] c = "3" -> 3
              [] c = "4" -> 4 [] c = "5" -> 5 [] c = "6" -> 6 [] c = "7" -> 7
              [] c = "8" -> 8 [] c = "9" -> 9]

IsDigits(s) == Len(s) > 0 /\ \A i \in 1..Len(s) : CharAt(s, i) \in DOMAIN Digit

RECURSIVE DigitsValue(_)
DigitsValue(s) ==
    IF Len(s) = 0 THEN 0
    ELSE Bind(SubSeq(s, 1, Len(s) - 1), LAMBDA p :
             10 * DigitsValue(p) + Digit[CharAt(s, Len(s))])

\* int(text): an optional sign, then decimal digits
int(s) ==
    IF StartsWith(s, "-") /\ IsDigits(SubSeq(s, 2, Len(s)))
    THEN [ok |-> TRUE, n |-> 0 - DigitsValue(SubSeq(s, 2, Len(s)))]
    ELSE IF IsDigits(s) THEN [ok |-> TRUE, n |-> DigitsValue(s)]
    ELSE [ok |-> FALSE, n |-> 0]

\* base_type(v) for the base types int and six.text_type
base_type(base, v) ==
    IF base = "int"
    THEN IF v.t = "int" THEN [ok |-> TRUE, val |-> v]
         ELSE IF int(v.s).ok THEN [ok |-> TRUE, val |-> IntV(v.s)]
         ELSE [ok |-> FALSE, val |-> v]
    ELSE [ok |-> TRUE, val |-> StrV(v.s)]

\* the characters of [0-9\.]
NumberChars == DOMAIN Digit \cup {"."}

\* where the longest run of [0-9\.] that starts at position i ends (i - 1: no run)
RunEnd(s, i) ==
    CHOOSE j \in (i - 1)..Len(s) :
        /\ \A h \in i..j : CharAt(s, h) \in NumberChars
        /\ j < Len(s) => CharAt(s, j + 1) \notin NumberChars

\* the first position from i on that holds no space
SkipSpaces(s, i) ==
    CHOOSE j \in i..(Len(s) + 1) :
        /\ \A h \in i..(j - 1) : CharAt(s, h) = " "
        /\ j <= Len(s) => CharAt(s, j) # " "

\* where (\-?[0-9\.]+|min) can end when it starts at position 1
LowEnds(s) ==
    LET st == IF StartsWith(s, "-") THEN 2 ELSE 1
    IN  {e \in st..RunEnd(s, st) : TRUE}
            \cup (IF StartsWith(s, "min") THEN {3} ELSE {})

\* where (\-?[0-9\.]+|max) ends when it starts at position q (q - 1: no match)
HighEnd(s, q) ==
    LET st == IF q <= Len(s) /\ CharAt(s, q) = "-" THEN q + 1 ELSE q
    IN  IF RunEnd(s, st) >= st THEN RunEnd(s, st)
        ELSE IF q + 2 <= Len(s) /\ SubSeq(s, q, q + 2) = "max" THEN q + 2
        ELSE q - 1

\* what follows the low part ending at e: spaces, "..", spaces, the high part
AfterLow(s, e) ==
    LET p == SkipSpaces(s, e + 1)
        q == SkipSpaces(s, p + 2)
    IN  IF p + 1 <= Len(s) /\ SubSeq(s, p, p + 1) = ".." /\ HighEnd(s, q) >= q
        THEN [ok |-> TRUE, from |-> q, to |-> HighEnd(s, q)]
        ELSE [ok |-> FALSE, from |-> 0, to |-> 0]

\* range_regex.match(range_spec), and the groups low and high of the match: the
\* low part is taken as long as the rest of the expression still matches
range_regex_match(s) ==
    LET ends == {e \in LowEnds(s) : AfterLow(s, e).ok}
    IN  IF ends = {} THEN [ok |-> FALSE, low |-> "", high |-> "", rest |-> ""]
        ELSE LET e == CHOOSE x \in ends : \A y \in ends : y <= x
                 a == AfterLow(s, e)
             IN  [ok |-> TRUE, low |-> SubSeq(s, 1, e),
                  high |-> SubSeq(s, a.from, a.to),
                  rest |-> SubSeq(s, a.to + 1, Len(s))]

\* range_single_value_regex.match(range_spec), and what sub() leaves of the text
range_single_value_regex_match(s) ==
    LET st == IF StartsWith(s, "-") THEN 2 ELSE 1
    IN  [ok |-> RunEnd(s, st) >= st, value |-> s]

HasComma(s) == \E i \in 1..Len(s) : CharAt(s, i) = ","

\* a bound of a checking tuple: None, or a number
Unbounded == [none |-> TRUE, n |-> 0]
Bound(n) == [none |-> FALSE, n |-> n]
NoTuple == [len |-> 0, low |-> Unbounded, high |-> Unbounded]

\* build_length_range_tuples: (low, high) of a range, (value,) of a single value;
\* the numbers are cast by int (the base type of a range here, and of every length)
build_length_range_tuples(range_spec, length, multiplier) ==
    Bind(range_regex_match(range_spec), LAMBDA r :
        IF r.ok
        THEN LET hightext == r.high \o r.rest
                 high == int(hightext)
                 low == int(r.low)
             IN  IF HasComma(r.rest) \/ (hightext # "max" /\ ~high.ok)
                                     \/ (r.low # "min" /\ ~low.ok)
                 THEN [err |-> "ValueError", tuple |-> NoTuple]
                 ELSE [err |-> "none",
                       tuple |-> [len |-> 2,
                                  low |-> IF r.low = "min" THEN Unbounded
                                          ELSE Bound(low.n * multiplier),
                                  high |-> IF hightext = "max" THEN Unbounded
                                           ELSE Bound(high.n * multiplier)]]
        ELSE IF range_single_value_regex_match(range_spec).ok
        THEN LET eqval == int(range_single_value_regex_match(range_spec).value)
             IN  IF ~eqval.ok THEN [err |-> "ValueError", tuple |-> NoTuple]
                 ELSE [err |-> "none",
                       tuple |-> [len |-> 1, low |-> Bound(eqval.n * multiplier),
                                  high |-> Unbounded]]
        ELSE [err |-> "ValueError", tuple |-> NoTuple])

\* in_range_check the way every bound is taken as outside the range
range_check_exclusive(low_high_tuples, length, value) ==
    LET n == IF length THEN Len(value.s) ELSE int(value.s).n
    IN  \E i \in 1..Len(low_high_tuples) :
            LET check_tuple == low_high_tuples[i]
            IN  IF check_tuple.len = 2
                THEN /\ check_tuple.low.none \/ n > check_tuple.low.n
                     /\ check_tuple.high.none \/ n < check_tuple.high.n
                ELSE n = check_tuple.low.n

\* in_range_check(low_high_tuples, length)(value): True in range_results
range_check(low_high_tuples, length, value) ==
    LET n == IF length THEN Len(value.s) ELSE int(value.s).n
    IN  \E i \in 1..Len(low_high_tuples) :
            LET check_tuple == low_high_tuples[i]
            IN  IF check_tuple.len = 2
                THEN /\ ~(~check_tuple.low.none /\ n < check_tuple.low.n)
                     /\ ~(~check_tuple.high.none /\ n > check_tuple.high.n)
                ELSE ~(n # check_tuple.low.n)

\* str.replace("$", "\$")
RECURSIVE EscapeDollars(_)
EscapeDollars(s) ==
    IF Len(s) = 0 THEN ""
    ELSE Bind(SubSeq(s, 2, Len(s)), LAMBDA t :
             (IF CharAt(s, 1) = "$" THEN "\\$" ELSE CharAt(s, 1)) \o EscapeDollars(t))

\* convert_regexp: one trailing $ is kept, every other $ is escaped, and a leading ^
\* and a trailing $ are added where the pattern has none
convert_regexp(pattern) ==
    LET trimmed == CharAt(pattern, Len(pattern)) = "$"
        tmp_pattern == EscapeDollars(IF trimmed THEN SubSeq(pattern, 1, Len(pattern) - 1)
                                     ELSE pattern)
        p1 == IF trimmed THEN tmp_pattern \o "$" ELSE tmp_pattern
        p2 == IF CharAt(p1, 1) # "^" THEN "^" \o p1 ELSE p1
    IN  IF CharAt(p2, Len(p2)) # "$" THEN p2 \o "$" ELSE p2

\* The regular expressions of the model: alternatives separated by |, each a sequence
\* of ^, $, a character, an escaped character or a class [x-y], the last three with
\* an optional +.  Tokens(p, i) reads the pattern from position i on.
Lower == "abcdefghijklmnopqrstuvwxyz"
Ord(c) == IF \E i \in 1..Len(Lower) : CharAt(Lower, i) = c
          THEN CHOOSE i \in 1..Len(Lower) : CharAt(Lower, i) = c
          ELSE 0

Quantified(p, next, tok) ==
    IF next <= Len(p) /\ CharAt(p, next) = "+"
    THEN [tok |-> [tok EXCEPT !.plus = TRUE], next |-> next + 1]
    ELSE [tok |-> tok, next |-> next]

TokenAt(p, i) ==
    LET c == CharAt(p, i)
    IN  IF c = "|" THEN [tok |-> [k |-> "alt", lo |-> "", hi |-> "", plus |-> FALSE],
                         next |-> i + 1]
        ELSE IF c = "^" THEN [tok |-> [k |-> "bol", lo |-> "", hi |-> "", plus |-> FALSE],
                              next |-> i + 1]
        ELSE IF c = "$" THEN [tok |-> [k |-> "eol", lo |-> "", hi |-> "", plus |-> FALSE],
                              next |-> i + 1]
        ELSE IF c = "\\"
             THEN Quantified(p, i + 2, [k |-> "char", lo |-> CharAt(p, i + 1),
                                        hi |-> CharAt(p, i + 1), plus |-> FALSE])
        ELSE IF c = "["
             THEN Quantified(p, i + 5, [k |-> "class", lo |-> CharAt(p, i + 1),
                                        hi |-> CharAt(p, i + 3), plus |-> FALSE])
        ELSE Quantified(p, i + 1, [k |-> "char", lo |-> c, hi |-> c, plus |-> FALSE])

RECURSIVE Tokens(_, _)
Tokens(p, i) ==
    IF i > Len(p) THEN <<>>
    ELSE Bind(TokenAt(p, i), LAMBDA t : <<t.tok>> \o Tokens(p, t.next))

\* the alternatives of a token sequence
RECURSIVE Alternatives(_, _)
Alternatives(toks, cur) ==
    IF Len(toks) = 0 THEN <<cur>>
    ELSE Bind(Tail(toks), LAMBDA rest :
             IF Head(toks).k = "alt" THEN <<cur>> \o Alternatives(rest, <<>>)
             ELSE Alternatives(rest, Append(cur, Head(toks))))

\* whether character c is what token tok stands for
Stands(tok, c) ==
    IF tok.k = "class" THEN Ord(c) > 0 /\ Ord(tok.lo) <= Ord(c) /\ Ord(c) <= Ord(tok.hi)
    ELSE c = tok.lo

\* the positions of s a token can lead to from the positions ps (0: before s)
Step(tok, s, ps) ==
    IF tok.k = "bol" THEN {p \in ps : p = 0}
    ELSE IF tok.k = "eol" THEN {p \in ps : p = Len(s)}
    ELSE IF tok.plus
         THEN {q \in 1..Len(s) : \E p \in ps : p < q /\ \A h \in (p + 1)..q :
                                                            Stands(tok, CharAt(s, h))}
    ELSE {q \in 1..Len(s) : (q - 1) \in ps /\ Stands(tok, CharAt(s, q))}

\* the positions of s a sequence of tokens can end at when it starts before s
RECURSIVE Ends(_, _, _)
Ends(toks, s, ps) ==
    IF Len(toks) = 0 THEN ps
    ELSE Bind(Step(Head(toks), s, ps), LAMBDA qs :
             Bind(Tail(toks), LAMBDA rest : Ends(rest, s, qs)))

\* regex.match(pattern, s): some alternative matches a prefix of s
regex_match(pattern, s) ==
    LET alts == Alternatives(Tokens(pattern, 1), <<>>)
    IN  \E i \in 1..Len(alts) : Ends(alts[i], s, {0}) # {}

\* match_pattern_check(regexp)(value)
mp_check(regexp, value) ==
    IF value.t # "str" THEN FALSE
    ELSE regex_match(convert_regexp(regexp), value.s)

\* the dict_key branch of __new__: the keys that start with @ are dropped, then
\* every key without a value gets the counter c (new_rarg starts as the entries
\* kept, c at 0; the result is new_rarg with every value filled in)
DropAt(rarg) == SelectSeq(rarg, LAMBDA e : ~StartsWith(e.k, "@"))
used_values(new_rarg) == {new_rarg[i].value : i \in {j \in 1..Len(new_rarg) : new_rarg[j].has}}

RECURSIVE SkipUsed(_, _)
SkipUsed(c, used) == IF c \in used THEN SkipUsed(c + 1, used) ELSE c

RECURSIVE populate(_, _, _, _)
populate(new_rarg, i, c, used) ==
    IF i > Len(new_rarg) THEN new_rarg
    ELSE Bind(SkipUsed(c, used), LAMBDA c1 :
             Bind(IF new_rarg[i].has THEN new_rarg
                  ELSE [new_rarg EXCEPT ![i] = [k |-> @.k, has |-> TRUE, value |-> c1]],
                  LAMBDA filled : populate(filled, i + 1, c1 + 1, used)))

enumeration_dict(rarg) ==
    Bind(DropAt(rarg), LAMBDA new_rarg : populate(new_rarg, 1, 0, used_values(new_rarg)))

\* in_dictionary_check(dictionary)(i)
in_dictionary_check(dictionary, i) ==
    \E j \in 1..Len(dictionary) : dictionary[j].k = text_type(i).s

\* One entry of self._restriction_tests, and calling it with a value.
NoEnum == <<>>
PatternTest(rarg) == [kind |-> "pattern", regexp |-> rarg, tuples |-> <<>>, dict |-> NoEnum]
RangeTest(kind, tuples) == [kind |-> kind, regexp |-> "", tuples |-> tuples, dict |-> NoEnum]
DictTest(dict) == [kind |-> "dict_key", regexp |-> "", tuples |-> <<>>, dict |-> dict]

test(t, value) ==
    IF t.kind = "pattern" THEN mp_check(t.regexp, value)
    ELSE IF t.kind = "range" THEN range_check(t.tuples, FALSE, value)
    ELSE IF t.kind = "length" THEN range_check(t.tuples, TRUE, value)
    ELSE in_dictionary_check(t.dict, value)

\* the tuples of the sub-specs of a range or length argument, in their order
RECURSIVE build_tuples(_, _, _)
build_tuples(rarg, length, acc) ==
    IF Len(rarg) = 0 THEN [err |-> "none", tuples |-> acc]
    ELSE Bind(build_length_range_tuples(Head(rarg), length, 1), LAMBDA b :
             IF b.err # "none" THEN [err |-> b.err, tuples |-> acc]
             ELSE Bind(Tail(rarg), LAMBDA rest :
                      build_tuples(rest, length, Append(acc, b.tuple))))

\* An item of the restriction dictionary: the category and its argument, which is a
\* pattern, a list of sub-specs or the entries of an enumeration.
PatternItem(p) == [rtype |-> "pattern", pattern |-> p, specs |-> <<>>, entries |-> <<>>]
RangeItem(specs) == [rtype |-> "range", pattern |-> "", specs |-> specs, entries |-> <<>>]
LengthItem(specs) == [rtype |-> "length", pattern |-> "", specs |-> specs, entries |-> <<>>]
DictKeyItem(entries) ==
    [rtype |-> "dict_key", pattern |-> "", specs |-> <<>>, entries |-> entries]
OtherItem(rtype) == [rtype |-> rtype, pattern |-> "", specs |-> <<>>, entries |-> <<>>]

\* The loop of __new__ over self._restriction_dict.items(): st is [err, tests, val,
\* enum], val being the value handed in (cast by the base type by a range entry).
NewState(val) == [err |-> "none", tests |-> <<>>, val |-> val, enum |-> NoEnum]

restriction_step(base, st, item) ==
    IF item.rtype = "pattern"
    THEN [st EXCEPT !.tests = Append(@, PatternTest(item.pattern))]
    ELSE IF item.rtype = "range"
    THEN Bind(build_tuples(item.specs, FALSE, <<>>), LAMBDA b :
             IF b.err # "none" THEN [st EXCEPT !.err = b.err]
             ELSE IF st.val = None
                  THEN [st EXCEPT !.tests = Append(@, RangeTest("range", b.tuples))]
             ELSE IF ~base_type(base, st.val).ok
                  THEN [st EXCEPT !.err = "ValueError",
                                  !.tests = Append(@, RangeTest("range", b.tuples))]
             ELSE [st EXCEPT !.tests = Append(@, RangeTest("range", b.tuples)),
                             !.val = base_type(base, st.val).val])
    ELSE IF item.rtype = "length"
    THEN Bind(build_tuples(item.specs, TRUE, <<>>), LAMBDA b :
             IF b.err # "none" THEN [st EXCEPT !.err = b.err]
             ELSE [st EXCEPT !.tests = Append(@, RangeTest("length", b.tuples))])
    ELSE IF item.rtype = "dict_key"
    THEN Bind(enumeration_dict(item.entries), LAMBDA new_rarg :
             [st EXCEPT !.tests = Append(@, DictTest(new_rarg)), !.enum = new_rarg])
    ELSE [st EXCEPT !.err = "ValueError"]

RECURSIVE restriction_loop(_, _, _)
restriction_loop(base, items, st) ==
    IF Len(items) = 0 \/ st.err # "none" THEN st
    ELSE Bind(restriction_step(base, st, Head(items)), LAMBDA st1 :
             Bind(Tail(items), LAMBDA rest : restriction_loop(base, rest, st1)))

\* RestrictedClass.__new__(cls, val); val is None when the class is called with no
\* argument.  The value passes when one of the tests does.
RestrictedClass_new(cls, val) ==
    Bind(restriction_loop(cls.base_type, cls.restriction_dict, NewState(val)), LAMBDA st :
        IF st.err # "none" THEN st
        ELSE IF val # None /\ ~\E i \in 1..Len(st.tests) : test(st.tests[i], st.val)
             THEN [st EXCEPT !.err = "ValueError"]
        ELSE st)

\* RestrictedClass.__check(v): v is cast by the base type and has to pass every test
RestrictedClass_check(cls, tests, v) ==
    IF ~base_type(cls.base_type, v).ok THEN "ValueError"
    ELSE IF \E i \in 1..Len(tests) : ~test(tests[i], base_type(cls.base_type, v).val)
         THEN "ValueError"
    ELSE "none"

\* RestrictedClass.__init__(self, val): self.__check(args[0]) when there is one
RestrictedClass_init(cls, tests, val) ==
    IF val = None THEN "none" ELSE RestrictedClass_check(cls, tests, val)

\* cls(val): type.__call__ runs __new__, then __init__ on what it returned
RestrictedClass(cls, val) ==
    Bind(RestrictedClass_new(cls, val), LAMBDA st :
        IF st.err # "none" THEN [err |-> st.err, enum |-> st.enum, tests |-> st.tests]
        ELSE [err |-> RestrictedClass_init(cls, st.tests, val),
              enum |-> st.enum, tests |-> st.tests])

\* RestrictedClassType(base_type=, restriction_dict=): the dictionary goes through
\* json.dumps and json.loads, and the class statement is all that runs
RestrictedClassType(base, restriction_dict) ==
    [base_type |-> base, restriction_dict |-> restriction_dict]

\* The classes and values the model builds and calls.
Entry(k) == [k |-> k, has |-> FALSE, value |-> 0]
EntryV(k, value) == [k |-> k, has |-> TRUE, value |-> value]

Patterns == {"[a-z]+", "a|b", "a$b"}
Anchorings(p) == {p, "^" \o p, p \o "$", "^" \o p \o "$"}
RangeArgs == {<<"1..10", "20..max">>, <<"min..0", "2">>, <<"-1..1">>}
LengthArgs == {<<"1..2">>, <<"3">>, <<"1", "3..max">>}
MalformedArgs == {<<"1..x">>, <<"x">>, <<"1..10", "..">>}
Enumerations ==
    {<<Entry("a"), Entry("b"), Entry("c")>>,
     <<EntryV("a", 5), Entry("b"), Entry("c")>>,
     <<Entry("a"), EntryV("b", 0), Entry("c")>>,
     <<EntryV("a", 1), Entry("@x"), Entry("b")>>}

RestrictionDicts ==
    {<<PatternItem(q)>> : q \in UNION {Anchorings(p) : p \in Patterns}}
        \cup {<<RangeItem(a)>> : a \in RangeArgs \cup MalformedArgs}
        \cup {<<LengthItem(a)>> : a \in LengthArgs \cup MalformedArgs}
        \cup {<<DictKeyItem(e)>> : e \in Enumerations}
        \cup {<<PatternItem("[a-z]+"), LengthItem(<<"1..2">>)>>,
              <<LengthItem(<<"1..2">>), PatternItem("[a-z]+")>>,
              <<OtherItem("fraction-digits")>>}

BaseOf(d) == IF d[1].rtype = "range" THEN "int" ELSE "str"

Texts == {"abc", "abc1", "ab", "a", "b", "c", "a$b", "1"}
Numbers == {"0", "1", "2", "10", "11", "19", "20", "1000000", "-1", "-2"}
ValuesFor(base) == IF base = "int" THEN {IntV(n) : n \in Numbers} \cup {StrV("x")}
                   ELSE {StrV(t) : t \in Texts}

NoClass == [base_type |-> "none", restriction_dict |-> <<>>]
Made(op, val, r) == [op |-> op, val |-> val, err |-> r.err, enum |-> r.enum]
NoMade == Made("none", None, [err |-> "none", enum |-> NoEnum])

\* a module calls RestrictedClassType
Factory(d) ==
    /\ rclass' = RestrictedClassType(BaseOf(d), d)
    /\ made' = Made("factory", None, [err |-> "none", enum |-> NoEnum])
    /\ UNCHANGED <<schema, pathHelper, nodes, members, index, last, tseq, xref, dyn, memo, dec, hooks>>

\* the class is called with a value
Construct(v) ==
    /\ rclass # NoClass
    /\ \E r \in {RestrictedClass(rclass, v)} : made' = Made("call", v, r)
    /\ UNCHANGED <<schema, pathHelper, nodes, members, index, last, rclass, tseq, xref, dyn, memo, dec, hooks>>

\* the class is called with no argument
ConstructEmpty ==
    /\ rclass # NoClass
    /\ \E r \in {RestrictedClass(rclass, None)} : made' = Made("call", None, r)
    /\ UNCHANGED <<schema, pathHelper, nodes, members, index, last, rclass, tseq, xref, dyn, memo, dec, hooks>>

(***************************************************************************)
(* The leaf-list "ll": a TypedList over (int,), wrapped by YANGBaseClass.  *)
(***************************************************************************)
ll_allowed_type == <<"int">>
ll_unique == FALSE

\* v in self._list
InList(lst, v) == \E i \in 1..Len(lst) : lst[i].val = v

\* the restricted class a leaf-list of the model lists among its candidates
restricted_class == RestrictedClassType("int", <<RangeItem(<<"1..1">>)>>)

\* TypedList.check, the loop over self._allowed_type, candidate by candidate in the
\* way that takes the last candidate that fits
RECURSIVE check_candidates_last(_, _)
check_candidates_last(cands, v) ==
    IF Len(cands) = 0 THEN [ok |-> FALSE, val |-> v, node |-> FALSE, base |-> "none"]
    ELSE Bind(check_candidates_last(Tail(cands), v), LAMBDA later :
             IF later.ok THEN later
             ELSE LET i == Head(cands)
                  IN IF v.t = i THEN [ok |-> TRUE, val |-> v, node |-> TRUE, base |-> i]
                     ELSE IF i = "restricted" /\ RestrictedClass(restricted_class, v).err = "none"
                          THEN [ok |-> TRUE, val |-> base_type("int", v).val,
                                node |-> TRUE, base |-> i]
                     ELSE IF i = "int" /\ v.t = "str" /\ v.s \in NumericTexts
                          THEN [ok |-> TRUE, val |-> IntV(v.s), node |-> FALSE, base |-> i]
                     ELSE later)

\* TypedList.check, the loop over self._allowed_type: the first candidate that v is
\* an instance of (the element is then wrapped by YANGDynClass), or that is a
\* restricted class and accepts v (wrapped as well), or that is not the text type and
\* casts v (the element is the plain cast).  The text type takes no value that is not
\* a text, and a candidate that raises is passed over.
RECURSIVE check_candidates(_, _)
check_candidates(cands, v) ==
    IF Len(cands) = 0 THEN [ok |-> FALSE, val |-> v, node |-> FALSE, base |-> "none"]
    ELSE LET i == Head(cands)
         IN IF v.t = i THEN [ok |-> TRUE, val |-> v, node |-> TRUE, base |-> i]
            ELSE IF i = "restricted" /\ RestrictedClass(restricted_class, v).err = "none"
                 THEN [ok |-> TRUE, val |-> base_type("int", v).val,
                       node |-> TRUE, base |-> i]
            ELSE IF i = "int" /\ v.t = "str" /\ v.s \in NumericTexts
                 THEN [ok |-> TRUE, val |-> IntV(v.s), node |-> FALSE, base |-> i]
            ELSE Bind(Tail(cands), LAMBDA rest : check_candidates(rest, v))

TypedList_check(st, n, v) ==
    IF ll_unique /\ InList(st[n].val, v)
    THEN [st |-> st, err |-> "ValueError", elem |-> None]
    ELSE Bind(check_candidates(ll_allowed_type, v), LAMBDA c :
             IF ~c.ok THEN [st |-> st, err |-> "ValueError", elem |-> None]
             ELSE IF c.node
                  THEN \* the element's own __init__ runs _set(), which reaches ll
                       Bind(YANGBaseClass_set(st, n, NoChoice), LAMBDA r :
                           [st |-> r.st, err |-> r.err,
                            elem |-> [val |-> c.val, node |-> TRUE]])
             ELSE [st |-> st, err |-> "none", elem |-> [val |-> c.val, node |-> FALSE]])

\* YANGBaseClass.append, then TypedList.append
YANGBaseClass_append(st, n, v) ==
    IF Kind(n) # "leaflist" THEN [st |-> st, err |-> "AttributeError"]
    ELSE Bind(YANGBaseClass_set(st, n, NoChoice), LAMBDA r :
             IF r.err # "none" THEN r
             ELSE IF ll_unique /\ InList(r.st[n].val, v) THEN r
             ELSE Bind(TypedList_check(r.st, n, v), LAMBDA c :
                      IF c.err # "none" THEN [st |-> c.st, err |-> c.err]
                      ELSE [st |-> [c.st EXCEPT ![n].val = Append(@, c.elem)],
                            err |-> "none"]))

\* YANGBaseClass.pop, then MutableSequence.pop
YANGBaseClass_pop(st, n) ==
    IF Kind(n) # "leaflist" THEN [st |-> st, err |-> "AttributeError"]
    ELSE Bind(YANGBaseClass_set(st, n, NoChoice), LAMBDA r :
             IF r.err # "none" THEN r
             ELSE IF Len(r.st[n].val) = 0 THEN [st |-> r.st, err |-> "IndexError"]
             ELSE [st |-> [r.st EXCEPT ![n].val = SubSeq(@, 1, Len(@) - 1)],
                   err |-> "none"])

\* YANGBaseClass.remove, then MutableSequence.remove
YANGBaseClass_remove(st, n, v) ==
    IF Kind(n) # "leaflist" THEN [st |-> st, err |-> "AttributeError"]
    ELSE Bind(YANGBaseClass_set(st, n, NoChoice), LAMBDA r :
             IF r.err # "none" THEN r
             ELSE IF ~InList(r.st[n].val, v) THEN [st |-> r.st, err |-> "ValueError"]
             ELSE LET lst == r.st[n].val
                      i == CHOOSE j \in 1..Len(lst) :
                             lst[j].val = v /\ \A h \in 1..(j - 1) : lst[h].val # v
                  IN [st |-> [r.st EXCEPT ![n].val =
                                 SubSeq(lst, 1, i - 1) \o SubSeq(lst, i + 1, Len(lst))],
                      err |-> "none"])

\* del node[i]: YANGBaseClass has no __delitem__, so TypedList.__delitem__ runs
\* on its own
TypedList_delitem_node(st, n, i) ==
    IF Kind(n) # "leaflist" THEN [st |-> st, err |-> "TypeError"]
    ELSE IF i > Len(st[n].val) THEN [st |-> st, err |-> "IndexError"]
    ELSE [st |-> [st EXCEPT ![n].val = SubSeq(@, 1, i - 1) \o SubSeq(@, i + 1, Len(@))],
          err |-> "none"]

SeqNodes == {"ll", "d1"}
SeqValues == {IntV("1"), StrV("1"), StrV("x")}

SeqAppend(n, v) ==
    /\ schema = "tree"
    /\ Kind(n) = "leaflist" => Len(nodes[n].val) < MaxSeqLen
    /\ \E r \in {YANGBaseClass_append(nodes, n, v)} :
          /\ nodes' = r.st
          /\ last' = Call("append", n, v, NoObj, r.err)
    /\ UNCHANGED <<rclass, made, tseq, xref, dyn, memo, schema, pathHelper, members, index, dec, hooks>>

SeqPop(n) ==
    /\ schema = "tree"
    /\ \E r \in {YANGBaseClass_pop(nodes, n)} :
          /\ nodes' = r.st
          /\ last' = Call("pop", n, None, NoObj, r.err)
    /\ UNCHANGED <<rclass, made, tseq, xref, dyn, memo, schema, pathHelper, members, index, dec, hooks>>

SeqDelItem(n, i) ==
    /\ schema = "tree"
    /\ \E r \in {TypedList_delitem_node(nodes, n, i)} :
          /\ nodes' = r.st
          /\ last' = Call("delitem", n, IntV(ToString(i - 1)), NoObj, r.err)
    /\ UNCHANGED <<rclass, made, tseq, xref, dyn, memo, schema, pathHelper, members, index, dec, hooks>>

SeqRemove(n, v) ==
    /\ schema = "tree"
    /\ \E r \in {YANGBaseClass_remove(nodes, n, v)} :
          /\ nodes' = r.st
          /\ last' = Call("remove", n, v, NoObj, r.err)
    /\ UNCHANGED <<rclass, made, tseq, xref, dyn, memo, schema, pathHelper, members, index, dec, hooks>>

(***************************************************************************)
(* The path helper: register(path, node), unregister(path).  An entry is   *)
(* kept under the path it was registered with.                             *)
(***************************************************************************)
register(idx, path, id) ==
    {e \in idx : e.path # path} \cup {[path |-> path, id |-> id]}

unregister(idx, path) == {e \in idx : e.path # path}

(***************************************************************************)
(* YANGList._members, an OrderedDict of member records                     *)
(*   [k, id, path, leaves, changed]                                        *)
(* k is the dictionary key, id the identity of the member object, path its *)
(* _supplied_register_path, leaves the values of its leaves (None: never   *)
(* set) and changed its _mchanged flag.                                    *)
(***************************************************************************)
HasKey(ms, k) == \E i \in 1..Len(ms) : ms[i].k = k

Member(ms, k) == ms[CHOOSE i \in 1..Len(ms) : ms[i].k = k]

\* self._members[k] = m: a held key keeps its place, a new key goes last
PutMember(ms, k, m) ==
    IF HasKey(ms, k)
    THEN [i \in 1..Len(ms) |-> IF ms[i].k = k THEN m ELSE ms[i]]
    ELSE Append(ms, m)

\* del self._members[k]
DelMember(ms, k) == SelectSeq(ms, LAMBDA m : m.k # k)

\* Object identity.  The object a call constructs is New while the call runs.
\* When the call returns, an object held in _members is named by the key that
\* holds it, and an object no key holds is Gone: the path helper may still
\* refer to it.
New == [t |-> "new", s |-> ""]
Gone == [t |-> "gone", s |-> ""]

FreshId(ms, idx) == New

NameObjects(ms, idx) ==
    LET heldIds == {ms[i].id : i \in 1..Len(ms)}
        name(id) ==
            IF id \notin heldIds THEN Gone
            ELSE IF id = New
                 THEN (CHOOSE m \in {ms[i] : i \in 1..Len(ms)} : m.id = New).k
            ELSE id
    IN [members |-> [i \in 1..Len(ms) |-> [ms[i] EXCEPT !.id = ms[i].k]],
        index |-> {[path |-> e.path, id |-> name(e.id)] : e \in idx}]

\* the read accessor _get_<name>() of a node: the default until the leaf is set
get_leaf(leaves, name) ==
    IF leaves[name] = None THEN LeafDefault(name) ELSE leaves[name]

\* the base type's constructor, as the generated _set_<name>(v) applies it
leaf_construct(name, v) ==
    IF LeafBase(name) = "str" THEN [ok |-> TRUE, val |-> StrV(v.s)]
    ELSE IF v.t = "int" THEN [ok |-> TRUE, val |-> v]
    ELSE IF v.t = "str" /\ v.s \in NumericTexts THEN [ok |-> TRUE, val |-> IntV(v.s)]
    ELSE [ok |-> FALSE, val |-> None]

\* the result of a call on the list
Ret(ms, idx, st, err, k) ==
    [members |-> ms, index |-> idx, nodes |-> st, err |-> err, k |-> k]

\* YANGList.__check__: the probe's slots differ from those of an object of the
\* contained class, and equal those of an object that is already wrapped
YANGList_check(v) == ~v.wrapped

\* "[" + "%s='%s' " per key + "]", with the trailing blank cut
RECURSIVE keystring_parts(_, _)
keystring_parts(keys, keydict) ==
    IF Len(keys) = 0 THEN ""
    ELSE Head(keys) \o "='" \o keydict[Head(keys)].s \o "' "
         \o keystring_parts(Tail(keys), keydict)

path_keystring(keys, keydict) == "[" \o DropLast(keystring_parts(keys, keydict)) \o "]"

\* for kn in keydict: _set_<kn>(keydict[kn], load=True), up to the first rejection
RECURSIVE set_keys(_, _, _)
set_keys(leaves, keys, keydict) ==
    IF Len(keys) = 0 THEN [leaves |-> leaves, err |-> "none", any |-> FALSE]
    ELSE Bind(leaf_construct(Head(keys), keydict[Head(keys)]), LAMBDA c :
             IF ~c.ok THEN [leaves |-> leaves, err |-> "ValueError", any |-> FALSE]
             ELSE Bind(<<[leaves EXCEPT ![Head(keys)] = c.val], Tail(keys)>>, LAMBDA a :
                      [set_keys(a[1], a[2], keydict) EXCEPT !.any = TRUE]))

\* the generated container initialiser given an object: every changed leaf of the
\* object is set on the new node; an object without the leaves is refused
seed_from(v) ==
    IF v.isNone THEN [leaves |-> NoLeaves, err |-> "ValueError"]
    ELSE [leaves |-> v.leaves, err |-> "none"]

\* _set() of a member, or of a leaf of a member: the member's parent is the list
set_from_member(st) == YANGBaseClass_set(st, "lst", NoChoice).st

\* YANGList.__set
YANGList_set(k0, v, named_set, python_key, kwargs, u) ==
    LET kn == keyname(schema)
        lname == list_yang_name(schema)
        k1 == IF k0 = None THEN u ELSE k0
        update == (~v.isNone) \/ HasKey(members, k1)
        id == FreshId(members, index)
        reg(path) == IF pathHelper THEN register(index, path, id) ELSE index
        composite == HasSpace(kn) /\ ~named_set
        k2 == IF named_set THEN python_key ELSE k1
    IN IF ~v.isNone /\ ~YANGList_check(v)
       THEN Ret(members, index, nodes, "ValueError", k1)
       ELSE IF kn = ""
       THEN LET path == <<lname, lname>>
                m == [k |-> k1, id |-> id, path |-> path,
                      leaves |-> NoLeaves, changed |-> FALSE]
            IN Ret(PutMember(members, k1, m), reg(path), nodes, "none", k1)
       ELSE IF composite /\ k1.t # "str"
       THEN Ret(members, index, nodes, "AttributeError", k1)
       ELSE
       Bind(<<split(kn), split(k1.s)>>, LAMBDA ks :
       LET keys == ks[1]
           keyparts == ks[2]
       IN IF composite /\ Len(keyparts) # Len(keys)
          THEN Ret(members, index, nodes, "KeyError", k1)
          ELSE IF ~composite /\ ~named_set /\ k1 = StrV("")
          THEN Ret(members, index, nodes, "KeyError", k1)
          ELSE
          Bind(IF composite
               THEN [n \in LeafNames |->
                       IF \E i \in 1..Len(keys) : keys[i] = n
                       THEN StrV(keyparts[CHOOSE i \in 1..Len(keys) : keys[i] = n])
                       ELSE None]
               ELSE IF named_set THEN kwargs
               ELSE [n \in LeafNames |-> IF n = kn THEN k1 ELSE None],
               LAMBDA keydict :
          Bind(<<lname \o path_keystring(keys, keydict)>>, LAMBDA path :
          \* the member is constructed: with an object given it runs _set()
          Bind(IF update THEN set_from_member(nodes) ELSE nodes, LAMBDA st1 :
          Bind(IF update THEN seed_from(v) ELSE [leaves |-> NoLeaves, err |-> "none"],
               LAMBDA seed :
          IF seed.err # "none"
          THEN Ret(members, reg(path), st1, "KeyError", k2)
          ELSE
          Bind(set_keys(seed.leaves, keys, keydict), LAMBDA sk :
          Bind(IF sk.any THEN set_from_member(st1) ELSE st1, LAMBDA st2 :
          IF sk.err # "none"
          THEN Ret(members, reg(path), st2, "KeyError", k2)
          ELSE LET tmp == [k |-> k2, id |-> id, path |-> path,
                           leaves |-> sk.leaves, changed |-> update \/ sk.any]
               IN Ret(PutMember(members, k2, tmp), reg(path), st2, "none", k2))))))))

\* YANGList._generate_key: args is the tuple of positional arguments, kwargs maps
\* each name to its keyword value (None: not given)
RECURSIVE joined_kwargs(_, _)
joined_kwargs(keys, kwargs) ==
    IF Len(keys) = 0 THEN ""
    ELSE kwargs[Head(keys)].s \o " " \o joined_kwargs(Tail(keys), kwargs)

YANGList_generate_key(args, kwargs) ==
    LET kn == keyname(schema)
        given == {n \in LeafNames : kwargs[n] # None}
    IN IF Len(args) > 0
       THEN [k |-> args[1], keyargs |-> NoLeaves, named |-> FALSE, err |-> "none"]
       ELSE IF given # {}
       THEN Bind(split(kn), LAMBDA keys :
            IF kn = "" \/ \E i \in 1..Len(keys) : keys[i] \notin given
            THEN [k |-> None, keyargs |-> NoLeaves, named |-> TRUE,
                  err |-> "AttributeError"]
            ELSE [k |-> StrV(DropLast(joined_kwargs(keys, kwargs))),
                  keyargs |-> [n \in LeafNames |->
                                 IF \E i \in 1..Len(keys) : keys[i] = n
                                 THEN kwargs[n] ELSE None],
                  named |-> TRUE, err |-> "none"])
       ELSE [k |-> None, keyargs |-> NoLeaves, named |-> FALSE, err |-> "none"]

\* YANGList._extract_key
RECURSIVE joined_leaves(_, _)
joined_leaves(keys, leaves) ==
    IF Len(keys) = 0 THEN ""
    ELSE text_type(get_leaf(leaves, Head(keys))).s \o " " \o joined_leaves(Tail(keys), leaves)

YANGList_extract_key(obj) ==
    LET kn == keyname(schema)
    IN IF kn = "" THEN [k |-> None, err |-> "AttributeError"]
       ELSE Bind(split(kn), LAMBDA kp :
            IF Len(kp) > 1
            THEN [k |-> StrV(rstrip(joined_leaves(kp, obj.leaves))), err |-> "none"]
            ELSE [k |-> get_leaf(obj.leaves, kn), err |-> "none"])

\* a plausible slip: add skips the test for a key that is already held
YANGList_add_nodup(args, kwargs, u) ==
    Bind(YANGList_generate_key(args, kwargs), LAMBDA g :
    LET kn == keyname(schema)
    IN IF g.err # "none" THEN Ret(members, index, nodes, g.err, g.k)
       ELSE IF kn # "" /\ ~g.named
       THEN IF g.k = None THEN Ret(members, index, nodes, "KeyError", g.k)
            ELSE YANGList_set(g.k, NoObj, FALSE, None, NoLeaves, u)
       ELSE IF kn # "" THEN YANGList_set(None, NoObj, TRUE, g.k, g.keyargs, u)
       ELSE YANGList_set(None, NoObj, FALSE, None, NoLeaves, u))

\* YANGList.add
YANGList_add(args, kwargs, u) ==
    IF Len(args) > 0 /\ \E n \in LeafNames : kwargs[n] # None
    THEN Ret(members, index, nodes, "AttributeError", None)
    ELSE
    Bind(YANGList_generate_key(args, kwargs), LAMBDA g :
    LET kn == keyname(schema)
    IN IF g.err # "none" THEN Ret(members, index, nodes, g.err, g.k)
       ELSE IF HasKey(members, g.k) THEN Ret(members, index, nodes, "KeyError", g.k)
       ELSE IF kn # "" /\ ~g.named
       THEN IF g.k = None THEN Ret(members, index, nodes, "KeyError", g.k)
            ELSE YANGList_set(g.k, NoObj, FALSE, None, NoLeaves, u)
       ELSE IF kn # "" THEN YANGList_set(None, NoObj, TRUE, g.k, g.keyargs, u)
       ELSE YANGList_set(None, NoObj, FALSE, None, NoLeaves, u))

\* YANGList.append
YANGList_append(obj, u) ==
    Bind(YANGList_extract_key(obj), LAMBDA e :
        IF e.err # "none" THEN Ret(members, index, nodes, e.err, e.k)
        ELSE YANGList_set(e.k, obj, FALSE, None, NoLeaves, u))

\* YANGBaseClass.append of the node that wraps the list: self._set(), then
\* YANGList.append.  _set() only sets flags of the list and its ancestors, which
\* YANGList.append never clears, so its effect is the same before and after
YANGBaseClass_append_list(obj, u) ==
    Bind(YANGList_append(obj, u), LAMBDA r :
        [r EXCEPT !.nodes = set_from_member(r.nodes)])

\* the path YANGList.delete hands to unregister
RECURSIVE delete_parts(_, _)
delete_parts(keyparts, keyargs) ==
    IF Len(keyparts) = 0 \/ Len(keyargs) = 0 THEN ""
    ELSE Head(keyparts) \o "=" \o Head(keyargs) \o " "
         \o delete_parts(Tail(keyparts), Tail(keyargs))

delete_key_string(kn, k) ==
    IF HasSpace(kn)
    THEN "[" \o rstrip(delete_parts(split(kn), split(k.s))) \o "]"
    ELSE "[@" \o kn \o "=" \o k.s \o "]"

\* a plausible slip: delete of a key that is not held is taken for done
YANGList_delete_lenient(args, kwargs) ==
    Bind(YANGList_generate_key(args, kwargs), LAMBDA g :
        IF g.err # "none" THEN Ret(members, index, nodes, g.err, g.k)
        ELSE Ret(DelMember(members, g.k), index, nodes, "none", g.k))

\* YANGList.delete
YANGList_delete(args, kwargs) ==
    Bind(YANGList_generate_key(args, kwargs), LAMBDA g :
    LET kn == keyname(schema)
        k == g.k
        obj_path == <<list_yang_name(schema) \o delete_key_string(kn, k)>>
    IN IF g.err # "none" THEN Ret(members, index, nodes, g.err, k)
       ELSE IF pathHelper /\ ~HasKey(members, k)
       THEN Ret(members, index, nodes, "KeyError", k)
       ELSE IF pathHelper /\ kn = ""
       THEN Ret(members, index, nodes, "TypeError", k)
       ELSE IF pathHelper /\ HasSpace(kn) /\ k.t # "str"
       THEN Ret(members, index, nodes, "AttributeError", k)
       ELSE IF ~HasKey(members, k)
       THEN Ret(members, index, nodes, "KeyError", k)
       ELSE Ret(DelMember(members, k),
                IF pathHelper THEN unregister(index, obj_path) ELSE index,
                nodes, "none", k))

\* YANGList.__delitem__
YANGList_delitem(k) ==
    IF ~HasKey(members, k) THEN Ret(members, index, nodes, "KeyError", k)
    ELSE Ret(DelMember(members, k), index, nodes, "none", k)

\* a plausible slip: the export walks the keys in reverse of the held order
YANGList_get_reversed ==
    [i \in 1..Len(members) |->
       [k |-> members[Len(members) + 1 - i].k, v |-> members[Len(members) + 1 - i].leaves]]

\* YANGList.get: an OrderedDict from each key to its member's own export
YANGList_get ==
    [i \in 1..Len(members) |-> [k |-> members[i].k, v |-> members[i].leaves]]

(***************************************************************************)
(* The calls made on the list, and their inputs.                           *)
(***************************************************************************)
L(foo, bar, one, cfg) ==
    [n \in LeafNames |->
       CASE n = "foo" -> foo [] n = "bar" -> bar [] n = "one" -> one [] OTHER -> cfg]

Obj(leaves) == [isNone |-> FALSE, wrapped |-> FALSE, leaves |-> leaves]

\* positional keys handed to add, delete and del
PosKeys(sc) ==
    CASE sc = "single_str" -> {StrV("a"), StrV("b"), StrV("")}
      [] sc = "single_int" -> {IntV("1"), StrV("1"), StrV("x")}
      [] sc = "composite" -> {StrV("a b"), StrV("a")}
      [] OTHER -> {StrV("a")}

\* keyword arguments handed to add and delete
KwArgs(sc) ==
    CASE sc = "single_str" -> {L(StrV("a"), None, None, None)}
      [] sc = "single_int" -> {L(None, None, IntV("1"), None)}
      [] sc = "composite" -> {L(StrV("a"), StrV("b"), None, None),
                              L(StrV("a b"), StrV("c"), None, None),
                              L(StrV("a"), None, None, None)}
      [] OTHER -> {L(None, None, None, StrV("v"))}

\* objects of the contained class (_new_item()) with some leaves set
NewItems(sc) ==
    CASE sc = "single_str" ->
           {Obj(L(f, None, None, c)) : f \in {None, StrV("a"), StrV("b")},
                                       c \in {None, StrV("v")}}
      [] sc = "single_int" ->
           {Obj(L(None, None, o, c)) : o \in {None, IntV("1")}, c \in {None, StrV("v")}}
      [] sc = "composite" ->
           {Obj(L(f, b, None, None)) : f \in {StrV("a"), StrV("a b")},
                                       b \in {None, StrV("b")}}
      [] OTHER -> {Obj(L(None, None, None, StrV("v")))}

\* the members held, as objects handed to append: these are wrapped nodes
HeldItems ==
    {[isNone |-> FALSE, wrapped |-> TRUE, leaves |-> members[i].leaves] :
        i \in 1..Len(members)}

HeldKeys == {members[i].k : i \in 1..Len(members)}

\* the strings uuid.uuid1() returns: one never returned before
Uuids == {StrV("uuid" \o ToString(i)) : i \in 1..MaxUuid}

FreshUuids ==
    IF keyname(schema) = "" THEN Uuids \ HeldKeys ELSE {StrV("uuid1")}

Apply(call, op, obj) ==
    \E r \in {call} :
        \E named \in {NameObjects(r.members, r.index)} :
            /\ members' = named.members
            /\ index' = named.index
            /\ nodes' = r.nodes
            /\ last' = Call(op, "lst", r.k, obj, r.err)
            /\ UNCHANGED <<rclass, made, tseq, xref, dyn, memo, schema, pathHelper, dec, hooks>>

AddPositional(k, u) ==
    /\ schema \in ListSchemas
    /\ Apply(YANGList_add(<<k>>, NoLeaves, u), "add", NoObj)

AddKeyword(kwargs, u) ==
    /\ schema \in ListSchemas
    /\ Apply(YANGList_add(<<>>, kwargs, u), "add", [NoObj EXCEPT !.leaves = kwargs])

AddNothing(u) ==
    /\ schema \in ListSchemas
    /\ Apply(YANGList_add(<<>>, NoLeaves, u), "add", NoObj)

ListAppend(obj, u) ==
    /\ schema \in ListSchemas
    /\ Apply(YANGBaseClass_append_list(obj, u), "append", obj)

DeletePositional(k) ==
    /\ schema \in ListSchemas
    /\ Apply(YANGList_delete(<<k>>, NoLeaves), "delete", NoObj)

DeleteKeyword(kwargs) ==
    /\ schema \in ListSchemas
    /\ Apply(YANGList_delete(<<>>, kwargs), "delete", [NoObj EXCEPT !.leaves = kwargs])

DelItem(k) ==
    /\ schema \in ListSchemas
    /\ Apply(YANGList_delitem(k), "delitem", NoObj)

\* the generated _set_cfg(v) of a held member: the new leaf runs _set()
SetMemberLeaf(i, v) ==
    /\ schema \in ListSchemas
    /\ i \in 1..Len(members)
    /\ members' = [members EXCEPT ![i].leaves["cfg"] = v, ![i].changed = TRUE]
    /\ nodes' = set_from_member(nodes)
    /\ last' = Call("set_member_leaf", "lst", members[i].k, NoObj, "none")
    /\ UNCHANGED <<rclass, made, tseq, xref, dyn, memo, schema, pathHelper, index, dec, hooks>>

\* values written into the first key leaf of a held member
KeyWrites(sc) == IF sc = "single_int" THEN {IntV("2")} ELSE {StrV("z")}

\* the generated _set_<key leaf>(v, load=True) of a held member: the leaf is
\* replaced and runs _set(); the member stays under its dictionary key and keeps
\* the register_path it was constructed with
LoadMemberKey(i, v) ==
    /\ schema \in ListSchemas
    /\ keyname(schema) # ""
    /\ i \in 1..Len(members)
    /\ \E c \in {leaf_construct(Head(split(keyname(schema))), v)} :
          /\ c.ok
          /\ members' = [members EXCEPT
                            ![i].leaves[Head(split(keyname(schema)))] = c.val,
                            ![i].changed = TRUE]
    /\ nodes' = set_from_member(nodes)
    /\ last' = Call("load_key", "lst", members[i].k, NoObj, "none")
    /\ UNCHANGED <<rclass, made, tseq, xref, dyn, memo, schema, pathHelper, index, dec, hooks>>

(***************************************************************************)
(* A leaf-list built on its own.                                           *)
(*                                                                         *)
(* tseq is the leaf-list "tl" of the root container: the YANGDynClass       *)
(* wrapper of a TypedList.  allowed is self._allowed_type, unique is       *)
(* self._unique, list is self._list (its elements are [val, node, base,    *)
(* path]: the value, whether YANGDynClass wraps it, the candidate that     *)
(* made it and the path it was given), changed is _mchanged of the wrapper,*)
(* op is the last call made on it: [name, vals, at, err].                  *)
(***************************************************************************)
NoOp == [name |-> "none", vals |-> <<>>, at |-> 0, err |-> "none"]
NoSeq == [allowed |-> <<>>, unique |-> FALSE, list |-> <<>>, changed |-> FALSE,
          op |-> NoOp]

\* "[.='%s']" % v behind self._yang_name
element_path(v) == "tl" \o "[.='" \o v.s \o "']"

\* YANGBaseClass.__init__ of a node whose parent is of the kind given: a node of a
\* leaf-list does not register
init_register(idx, helper, parentKind, path, id) ==
    IF parentKind # "leaflist" /\ helper THEN register(idx, path, id) ELSE idx

\* TypedList.check in the way that leaves out the uniqueness test
check_any(ts, lst, idx, helper, v) ==
    Bind(check_candidates(ts.allowed, v), LAMBDA c :
        IF ~c.ok THEN [err |-> "ValueError", elem |-> None, idx |-> idx]
        ELSE [err |-> "none",
              elem |-> [val |-> c.val, node |-> c.node, base |-> c.base,
                        path |-> IF c.node THEN element_path(v) ELSE "", given |-> v],
              idx |-> IF c.node
                      THEN init_register(idx, helper, "leaflist",
                                         <<element_path(v)>>, StrV(element_path(v)))
                      ELSE idx])

\* TypedList.check(v) on the list lst: [err, elem, idx]; an element records the
\* value it was made of (the v handed to dyn_wrapper or to the cast i(v))
check(ts, lst, idx, helper, v) ==
    IF ts.unique /\ InList(lst, v)
    THEN [err |-> "ValueError", elem |-> None, idx |-> idx]
    ELSE Bind(check_candidates(ts.allowed, v), LAMBDA c :
             IF ~c.ok THEN [err |-> "ValueError", elem |-> None, idx |-> idx]
             ELSE IF c.node
                  THEN [err |-> "none",
                        elem |-> [val |-> c.val, node |-> TRUE, base |-> c.base,
                                  path |-> element_path(v), given |-> v],
                        idx |-> init_register(idx, helper, "leaflist",
                                              <<element_path(v)>>, StrV(element_path(v)))]
             ELSE [err |-> "none",
                   elem |-> [val |-> c.val, node |-> FALSE, base |-> c.base, path |-> "",
                             given |-> v],
                   idx |-> idx])

\* list.insert(i, val), i counted from 0
list_insert(lst, i, val) ==
    LET at == IF i > Len(lst) THEN Len(lst) ELSE i
    IN  SubSeq(lst, 1, at) \o <<val>> \o SubSeq(lst, at + 1, Len(lst))

\* what a call leaves: the leaf-list, the path helper's entries, the exception
Left(ts, idx, err) == [ts |-> ts, idx |-> idx, err |-> err]

\* YANGBaseClass.insert in the way that puts the value in before it is checked
YANGBaseClass_insert_unchecked(ts, idx, helper, i, v) ==
    Bind([ts EXCEPT !.changed = TRUE], LAMBDA t1 :
        Bind(check(t1, t1.list, idx, helper, v), LAMBDA c :
            IF c.err # "none"
            THEN Left([t1 EXCEPT !.list = list_insert(@, i, [val |-> v, node |-> FALSE,
                                                            base |-> "none", path |-> "",
                                                            given |-> v])],
                      c.idx, c.err)
            ELSE Left([t1 EXCEPT !.list = list_insert(@, i, c.elem)], c.idx, "none")))

\* YANGBaseClass.insert, then TypedList.insert
YANGBaseClass_insert(ts, idx, helper, i, v) ==
    Bind([ts EXCEPT !.changed = TRUE], LAMBDA t1 :
        Bind(check(t1, t1.list, idx, helper, v), LAMBDA c :
            IF c.err # "none" THEN Left(t1, c.idx, c.err)
            ELSE Left([t1 EXCEPT !.list = list_insert(@, i, c.elem)], c.idx, "none")))

\* YANGBaseClass.__setitem__, then TypedList.__setitem__, which calls self.insert
YANGBaseClass_setitem(ts, idx, helper, i, v) ==
    YANGBaseClass_insert([ts EXCEPT !.changed = TRUE], idx, helper, i, v)

\* TypedList.append in the way that refuses a value the list holds
TypedList_append_strict(ts, idx, helper, v) ==
    Bind(check(ts, ts.list, idx, helper, v), LAMBDA c :
        IF c.err # "none" THEN Left(ts, c.idx, c.err)
        ELSE Left([ts EXCEPT !.list = Append(@, c.elem)], c.idx, "none"))

\* TypedList.append
TypedList_append(ts, idx, helper, v) ==
    IF ~(~ts.unique \/ ~InList(ts.list, v)) THEN Left(ts, idx, "none")
    ELSE Bind(check(ts, ts.list, idx, helper, v), LAMBDA c :
             IF c.err # "none" THEN Left(ts, c.idx, c.err)
             ELSE Left([ts EXCEPT !.list = Append(@, c.elem)], c.idx, "none"))

\* YANGBaseClass.append on the leaf-list, then TypedList.append
Wrapped_append(ts, idx, helper, v) ==
    TypedList_append([ts EXCEPT !.changed = TRUE], idx, helper, v)

\* YANGBaseClass.extend, then MutableSequence.extend: self.append(v) for each value,
\* up to the first that raises
RECURSIVE MutableSequence_extend(_, _, _, _)
MutableSequence_extend(ts, idx, helper, values) ==
    IF Len(values) = 0 THEN Left(ts, idx, "none")
    ELSE Bind(Wrapped_append(ts, idx, helper, Head(values)), LAMBDA r :
             IF r.err # "none" THEN r
             ELSE Bind(Tail(values), LAMBDA rest :
                      MutableSequence_extend(r.ts, r.idx, helper, rest)))

YANGBaseClass_extend(ts, idx, helper, values) ==
    MutableSequence_extend([ts EXCEPT !.changed = TRUE], idx, helper, values)

\* TypedList.__init__ with a list: the loop that fills tmp; self._list is still
\* empty while check runs
RECURSIVE init_loop(_, _, _, _, _)
init_loop(ts, idx, helper, values, tmp) ==
    IF Len(values) = 0 THEN Left([ts EXCEPT !.list = tmp], idx, "none")
    ELSE Bind(Tail(values), LAMBDA rest :
             IF ~(~ts.unique \/ ~InList(tmp, Head(values)))
             THEN init_loop(ts, idx, helper, rest, tmp)
             ELSE Bind(check(ts, <<>>, idx, helper, Head(values)), LAMBDA c :
                      IF c.err # "none" THEN Left(ts, c.idx, c.err)
                      ELSE init_loop(ts, c.idx, helper, rest, Append(tmp, c.elem))))

\* YANGDynClass(values, base=TypedListType(allowed_type=allowed), unique=unique, ...)
TypedList_init(allowed, unique, idx, helper, values) ==
    init_loop([allowed |-> allowed, unique |-> unique, list |-> <<>>,
               changed |-> Len(values) > 0, op |-> NoOp],
              idx, helper, values, <<>>)

\* The leaf-lists and values of the model.
CandidateTuples ==
    {<<"int">>, <<"str", "int">>, <<"int", "str">>, <<"restricted", "int">>,
     <<"restricted", "str">>}
TLValues == SeqValues \cup {IntV("2")}
ValueLists == {<<>>} \cup {<<v>> : v \in TLValues}
                 \cup {<<v, w>> : v \in {IntV("1"), StrV("1")}, w \in TLValues}

Op(name, vals, at, err) == [name |-> name, vals |-> vals, at |-> at, err |-> err]

\* the leaf-list is built, from a list of values
TLBuild(allowed, unique, values) ==
    /\ tseq = NoSeq
    /\ \E r \in {TypedList_init(allowed, unique, {}, pathHelper, values)} :
          /\ tseq' = IF r.err = "none"
                     THEN [r.ts EXCEPT !.op = Op("init", values, 0, "none")]
                     ELSE [NoSeq EXCEPT !.op = Op("init", values, 0, r.err)]
          /\ index' = r.idx
    /\ UNCHANGED <<schema, pathHelper, nodes, members, last, rclass, made, xref, dyn, memo, dec, hooks>>

TLCall(name, vals, at, r) ==
    /\ tseq.allowed # <<>>
    /\ Len(tseq.list) + Len(vals) <= MaxSeqLen
    /\ tseq' = [r.ts EXCEPT !.op = Op(name, vals, at, r.err)]
    /\ index' = r.idx
    /\ UNCHANGED <<schema, pathHelper, nodes, members, last, rclass, made, xref, dyn, memo, dec, hooks>>

TLAppend(v) ==
    \E r \in {Wrapped_append(tseq, index, pathHelper, v)} : TLCall("append", <<v>>, 0, r)

TLInsert(i, v) ==
    \E r \in {YANGBaseClass_insert(tseq, index, pathHelper, i, v)} :
        TLCall("insert", <<v>>, i, r)

TLSetItem(i, v) ==
    /\ i < Len(tseq.list)
    /\ \E r \in {YANGBaseClass_setitem(tseq, index, pathHelper, i, v)} :
          TLCall("setitem", <<v>>, i, r)

TLExtend(values) ==
    \E r \in {YANGBaseClass_extend(tseq, index, pathHelper, values)} :
        TLCall("extend", values, 0, r)

(***************************************************************************)
(* insert, item assignment and extend on a node of the static tree.        *)
(***************************************************************************)
\* YANGBaseClass.insert, then TypedList.insert
YANGBaseClass_insert_node(st, n, i, v) ==
    IF Kind(n) # "leaflist" THEN [st |-> st, err |-> "AttributeError"]
    ELSE Bind(YANGBaseClass_set(st, n, NoChoice), LAMBDA r :
             IF r.err # "none" THEN r
             ELSE Bind(TypedList_check(r.st, n, v), LAMBDA c :
                      IF c.err # "none" THEN [st |-> c.st, err |-> c.err]
                      ELSE [st |-> [c.st EXCEPT ![n].val = list_insert(@, i, c.elem)],
                            err |-> "none"]))

\* YANGBaseClass.__setitem__ in the way that leaves _set() out
YANGBaseClass_setitem_silent(st, n, i, v) ==
    IF Kind(n) # "leaflist" THEN [st |-> st, err |-> "AttributeError"]
    ELSE Bind(check_candidates(ll_allowed_type, v), LAMBDA c :
             IF ~c.ok THEN [st |-> st, err |-> "ValueError"]
             ELSE [st |-> [st EXCEPT ![n].val =
                              list_insert(@, i, [val |-> c.val, node |-> c.node])],
                   err |-> "none"])

\* YANGBaseClass.__setitem__: _set(), then TypedList.__setitem__, which calls
\* self.insert; a base type without __setitem__ raises after _set() has run
YANGBaseClass_setitem_node(st, n, i, v) ==
    Bind(YANGBaseClass_set(st, n, NoChoice), LAMBDA r :
        IF r.err # "none" THEN r
        ELSE IF Kind(n) # "leaflist" THEN [st |-> r.st, err |-> "AttributeError"]
        ELSE YANGBaseClass_insert_node(r.st, n, i, v))

\* MutableSequence.extend: self.append(v) for each v of values
RECURSIVE MutableSequence_extend_node(_, _, _)
MutableSequence_extend_node(st, n, values) ==
    IF Len(values) = 0 THEN [st |-> st, err |-> "none"]
    ELSE Bind(YANGBaseClass_append(st, n, Head(values)), LAMBDA r :
             IF r.err # "none" THEN r
             ELSE Bind(Tail(values), LAMBDA rest :
                      MutableSequence_extend_node(r.st, n, rest)))

\* YANGBaseClass.extend, then MutableSequence.extend
YANGBaseClass_extend_node(st, n, values) ==
    IF Kind(n) # "leaflist" THEN [st |-> st, err |-> "AttributeError"]
    ELSE Bind(YANGBaseClass_set(st, n, NoChoice), LAMBDA r :
             IF r.err # "none" THEN r
             ELSE MutableSequence_extend_node(r.st, n, values))

SeqValueLists == {<<v>> : v \in SeqValues} \cup {<<IntV("1"), StrV("x")>>}

SeqInsert(n, i, v) ==
    /\ schema = "tree"
    /\ Kind(n) = "leaflist" => Len(nodes[n].val) < MaxSeqLen
    /\ \E r \in {YANGBaseClass_insert_node(nodes, n, i, v)} :
          /\ nodes' = r.st
          /\ last' = Call("insert", n, v, NoObj, r.err)
    /\ UNCHANGED <<rclass, made, tseq, xref, dyn, memo, schema, pathHelper, members, index, dec, hooks>>

SeqSetItem(n, i, v) ==
    /\ schema = "tree"
    /\ Kind(n) = "leaflist" => Len(nodes[n].val) < MaxSeqLen
    /\ \E r \in {YANGBaseClass_setitem_node(nodes, n, i, v)} :
          /\ nodes' = r.st
          /\ last' = Call("setitem", n, v, NoObj, r.err)
    /\ UNCHANGED <<rclass, made, tseq, xref, dyn, memo, schema, pathHelper, members, index, dec, hooks>>

SeqExtend(n, values) ==
    /\ schema = "tree"
    /\ Kind(n) = "leaflist" => Len(nodes[n].val) + Len(values) <= MaxSeqLen
    /\ \E r \in {YANGBaseClass_extend_node(nodes, n, values)} :
          /\ nodes' = r.st
          /\ last' = Call("extend", n, Head(values), NoObj, r.err)
    /\ UNCHANGED <<rclass, made, tseq, xref, dyn, memo, schema, pathHelper, members, index, dec, hooks>>

(***************************************************************************)
(* ReferenceType: a leafref.  xref holds the nodes a referenced path can   *)
(* name and the leafref built last:                                        *)
(*   helper : whether a path helper is attached (self._path_helper)        *)
(*   leaf   : the leaf /a, [val, changed]; top is _mchanged of its parent  *)
(*   keys   : the values of the key leaves /l/k of the list /l, in order   *)
(*   ll     : the elements of the leaf-list /ll                            *)
(*   ref    : the leafref, a ReferencePathType; hits is the number of      *)
(*            nodes its path named when it was built                       *)
(*   op     : the last call made: [name, cls, args, err]                   *)
(***************************************************************************)
\* self._referenced_object = False
NoObject == [t |-> "bool", s |-> "False"]

\* ReferenceType__inner: one class ReferencePathType for each pair of arguments
ReferenceType__inner(referenced_path, require_instance) ==
    [referenced_path |-> referenced_path, require_instance |-> require_instance]

\* ReferenceType drops caller and path_helper
ReferenceType(referenced_path, path_helper, caller, require_instance) ==
    ReferenceType__inner(referenced_path, require_instance)

NoRef == [cls |-> ReferenceType__inner("", FALSE), ptr |-> FALSE, obj |-> NoObject,
          changed |-> FALSE, helper |-> FALSE, hits |-> 0]
RefOp(name, cls, args, err) ==
    [name |-> name, cls |-> cls, args |-> args, err |-> err]
NoWorld == [helper |-> FALSE, leaf |-> [val |-> StrV(""), changed |-> FALSE],
            top |-> FALSE, keys |-> <<>>, vals |-> <<>>, ll |-> <<>>, ref |-> NoRef,
            op |-> RefOp("none", ReferenceType__inner("", FALSE), <<>>, "none")]

RefPaths == {"/a", "/l/k", "/l", "/ll", "/none"}
\* the paths that name leaves: /a, the key leaves /l/k and the leaves /l/v
LeafPaths == {"/a", "/l/k", "/l/v"}
RefValues == {StrV("x"), StrV("y")}

\* a node the path helper hands out
PathNode(kind, keyval, val, elems) ==
    [kind |-> kind, keyval |-> keyval, val |-> val, elems |-> elems]

\* path_helper.get(path, caller): the live nodes registered under the path
path_helper_get(w, path) ==
    CASE path = "/a" -> <<PathNode("leaf", FALSE, w.leaf.val, <<>>)>>
      [] path = "/l/k" -> [i \in 1..Len(w.keys) |-> PathNode("leaf", TRUE, w.keys[i], <<>>)]
      [] path = "/l/v" -> [i \in 1..Len(w.vals) |-> PathNode("leaf", FALSE, w.vals[i], <<>>)]
      [] path = "/l" -> <<PathNode("list", FALSE, None, <<>>)>>
      [] path = "/ll" -> <<PathNode("leaflist", FALSE, None, w.ll)>>
      [] OTHER -> <<>>

is_yang_list(arg) == arg.kind \in {"list", "leaflist"}
is_yang_leaflist(arg) == arg.kind = "leaflist"

\* the generated _set_<leaf>(v) of the parent of the one node the path names: the
\* new node is built with v, so its _set() runs, and it takes the place of the
\* old one (/a: the leaf of the top container; /l/v: the leaf v of the one member)
set_method(w, path, v) ==
    IF path = "/l/v" THEN [w EXCEPT !.vals[1] = v]
    ELSE [w EXCEPT !.leaf = [val |-> v, changed |-> TRUE], !.top = TRUE]

\* for i in path_chk[0]: the first element whose text is that of value (0: none)
first_found(elems, value) ==
    LET hit == {i \in 1..Len(elems) : text_type(elems[i]) = text_type(value)}
    IN  IF hit = {} THEN 0 ELSE CHOOSE i \in hit : \A j \in hit : i <= j

\* the search that takes the last node whatever its text
last_found_unmatched(path_chk, value) == Len(path_chk)

\* for i in path_chk: no break, the last node whose text is that of value (0: none)
last_found(path_chk, value) ==
    LET hit == {i \in 1..Len(path_chk) : text_type(path_chk[i].val) = text_type(value)}
    IN  IF hit = {} THEN 0 ELSE CHOOSE i \in hit : \A j \in hit : i >= j

\* the test of a pointer that lets the key leaf of a list through
pointer_found_keyval(path_chk) ==
    Len(path_chk) = 1 /\ ~is_yang_list(path_chk[1])

\* len(path_chk) == 1 and not path_chk[0]._is_keyval and not is_yang_list(path_chk[0])
pointer_found(path_chk) ==
    Len(path_chk) = 1 /\ ~path_chk[1].keyval /\ ~is_yang_list(path_chk[1])

\* what building a leafref leaves: the nodes, the leafref, the exception
Built(w, ref, err) == [w |-> w, ref |-> ref, err |-> err]

\* ReferencePathType.__init__ that takes a single plain leaf as a pointer without
\* writing the value into it
ReferencePathType_init_unwritten(w, cls, args) ==
    LET value == IF Len(args) > 0 THEN args[1] ELSE None
        path_chk == path_helper_get(w, cls.referenced_path)
        self == [cls |-> cls, ptr |-> FALSE, obj |-> NoObject,
                 changed |-> Len(args) > 0, helper |-> w.helper, hits |-> Len(path_chk)]
    IN  IF w.helper /\ value # None
        THEN IF pointer_found(path_chk)
             THEN Built(w, [self EXCEPT !.ptr = TRUE], "none")
             ELSE Built(w, [self EXCEPT !.obj = value], "none")
        ELSE Built(w, [self EXCEPT !.obj = IF value # None THEN value ELSE @], "none")

\* ReferencePathType.__init__(*args) of the class cls
ReferencePathType_init(w, cls, args) ==
    LET value == IF Len(args) > 0 THEN args[1] ELSE None
        path_chk == path_helper_get(w, cls.referenced_path)
        self == [cls |-> cls, ptr |-> FALSE, obj |-> NoObject,
                 changed |-> Len(args) > 0, helper |-> w.helper, hits |-> Len(path_chk)]
    IN  IF w.helper /\ value # None
        THEN IF pointer_found(path_chk)
             THEN Built(set_method(w, cls.referenced_path, value),
                        [self EXCEPT !.ptr = TRUE], "none")
             ELSE IF cls.require_instance
             THEN IF Len(path_chk) = 1 /\ is_yang_leaflist(path_chk[1])
                  THEN Bind(first_found(path_chk[1].elems, value), LAMBDA at :
                          IF at = 0 THEN Built(w, NoRef, "ValueError")
                          ELSE Built(w, [self EXCEPT !.obj = path_chk[1].elems[at]],
                                     "none"))
                  ELSE Bind(last_found(path_chk, value), LAMBDA i :
                          IF i = 0 THEN Built(w, NoRef, "ValueError")
                          ELSE Built(w, [self EXCEPT !.obj = path_chk[i].val], "none"))
             ELSE Built(w, [self EXCEPT !.obj = value], "none")
        ELSE IF value # None THEN Built(w, [self EXCEPT !.obj = value], "none")
        ELSE Built(w, self, "none")

\* ReferencePathType._get_ptr that takes the first node when the path names several
ReferencePathType_get_ptr_first(w, self) ==
    LET ptr == path_helper_get(w, self.cls.referenced_path)
    IN  IF self.ptr /\ Len(ptr) >= 1 THEN [err |-> "none", val |-> ptr[1].val]
        ELSE [err |-> "ValueError", val |-> None]

\* ReferencePathType._get_ptr
ReferencePathType_get_ptr(w, self) ==
    LET ptr == path_helper_get(w, self.cls.referenced_path)
    IN  IF self.ptr /\ Len(ptr) = 1 THEN [err |-> "none", val |-> ptr[1].val]
        ELSE [err |-> "ValueError", val |-> None]

\* ReferencePathType._get that reads the node the path names whenever it names one
ReferencePathType_get_live(w, self) ==
    LET ptr == path_helper_get(w, self.cls.referenced_path)
    IN  IF Len(ptr) = 1 /\ ptr[1].kind = "leaf" THEN [err |-> "none", val |-> ptr[1].val]
        ELSE [err |-> "none", val |-> self.obj]

\* ReferencePathType._get
ReferencePathType_get(w, self) ==
    IF ~self.ptr THEN [err |-> "none", val |-> self.obj]
    ELSE ReferencePathType_get_ptr(w, self)

\* ReferencePathType.__eq__ of two leafrefs, the same object or not
ReferencePathType_eq(self, other, same) ==
    same \/ (other.cls = self.cls
             /\ self.cls.referenced_path = other.cls.referenced_path)

\* ReferencePathType.__hash__: the hash of the path, kept as the text hashed
ReferencePathType_hash(self) == [hashed |-> self.cls.referenced_path]

\* a leafref is built
RefBuild(path, require_instance, args) ==
    /\ \E cls \in {ReferenceType(path, xref.helper, "/r", require_instance)} :
       \E r \in {ReferencePathType_init(xref, cls, args)} :
          xref' = [r.w EXCEPT !.ref = r.ref, !.op = RefOp("build", cls, args, r.err)]
    /\ UNCHANGED <<schema, pathHelper, nodes, members, index, last, rclass, made, tseq,
                   dyn, memo, dec, hooks>>

\* the leaf /a is set through _set_a of its parent
TargetSet(v) ==
    /\ xref' = [set_method(xref, "/a", v) EXCEPT
                    !.op = RefOp("set", NoRef.cls, <<v>>, "none")]
    /\ UNCHANGED <<schema, pathHelper, nodes, members, index, last, rclass, made, tseq,
                   dyn, memo, dec, hooks>>

\* a member is added to the list /l: its key leaf holds v, its leaf v is unset
KeyAdd(v) ==
    /\ Len(xref.keys) < MaxSeqLen
    /\ \A i \in 1..Len(xref.keys) : xref.keys[i] # v
    /\ xref' = [xref EXCEPT !.keys = Append(@, v), !.vals = Append(@, StrV("")),
                            !.op = RefOp("add", NoRef.cls, <<v>>, "none")]
    /\ UNCHANGED <<schema, pathHelper, nodes, members, index, last, rclass, made, tseq,
                   dyn, memo, dec, hooks>>

\* the key leaf of member i is set through its own _set_k(v, load=True)
KeyLoad(i, v) ==
    /\ xref' = [xref EXCEPT !.keys[i] = v, !.op = RefOp("load", NoRef.cls, <<v>>, "none")]
    /\ UNCHANGED <<schema, pathHelper, nodes, members, index, last, rclass, made, tseq,
                   dyn, memo, dec, hooks>>

\* the member i of the list /l is deleted: its leaves leave the path helper
KeyDel(i) ==
    /\ xref' = [xref EXCEPT !.keys = SubSeq(@, 1, i - 1) \o SubSeq(@, i + 1, Len(@)),
                            !.vals = SubSeq(@, 1, i - 1) \o SubSeq(@, i + 1, Len(@)),
                            !.op = RefOp("delete", NoRef.cls, <<>>, "none")]
    /\ UNCHANGED <<schema, pathHelper, nodes, members, index, last, rclass, made, tseq,
                   dyn, memo, dec, hooks>>

\* the leaf v of the member i of the list /l is set through _set_v of the member
MemberSet(i, v) ==
    /\ xref' = [xref EXCEPT !.vals[i] = v, !.op = RefOp("setv", NoRef.cls, <<v>>, "none")]
    /\ UNCHANGED <<schema, pathHelper, nodes, members, index, last, rclass, made, tseq,
                   dyn, memo, dec, hooks>>

\* a value is appended to the leaf-list /ll
LLAppend(v) ==
    /\ Len(xref.ll) < MaxSeqLen
    /\ xref' = [xref EXCEPT !.ll = Append(@, v), !.op = RefOp("append", NoRef.cls, <<v>>, "none")]
    /\ UNCHANGED <<schema, pathHelper, nodes, members, index, last, rclass, made, tseq,
                   dyn, memo, dec, hooks>>

(***************************************************************************)
(* YANGDynClass called on its own.  dyn holds the last call, the exception *)
(* it raised, the node it returned ([val, changed, id], id 0: none) and    *)
(* the number of nodes built so far; index holds what the nodes registered *)
(* with the path helper.  A call names the base type, the positional       *)
(* arguments, is_container, the kind of the parent ("none": parent=None),  *)
(* register_path (<<>>: None) and register_paths.                          *)
(***************************************************************************)
\* number of nodes the model lets YANGDynClass build
MaxNodes == 3

\* a value that is a list
ListV == [t |-> "list", s |-> "[]"]

DynCall(base, args, is_container, parent, register_path, register_paths) ==
    [base |-> base, args |-> args, is_container |-> is_container, parent |-> parent,
     register_path |-> register_path, register_paths |-> register_paths]
NoBuilt == [val |-> None, changed |-> FALSE, id |-> 0]
NoNode == [call |-> DynCall("none", <<>>, "leaf", "container", <<>>, TRUE),
           err |-> "none", node |-> NoBuilt, serial |-> 0]

\* base_type.__new__(cls, *args) of int and six.text_type: [err, val]
base_type_new(base, args) ==
    IF Len(args) = 0
    THEN [err |-> "none", val |-> IF base = "int" THEN IntV("0") ELSE StrV("")]
    ELSE IF base = "int"
    THEN IF args[1].t = "int" THEN [err |-> "none", val |-> args[1]]
         ELSE IF args[1].t = "str"
         THEN IF int(args[1].s).ok THEN [err |-> "none", val |-> IntV(args[1].s)]
              ELSE [err |-> "ValueError", val |-> None]
         ELSE [err |-> "TypeError", val |-> None]
    ELSE [err |-> "none", val |-> StrV(args[1].s)]

\* YANGBaseClass.__new__: base_type.__new__(self, *args), and on a TypeError
\* base_type.__new__(self)
YANGBaseClass_new(base, args) ==
    Bind(base_type_new(base, args), LAMBDA obj :
        IF obj.err = "TypeError" THEN base_type_new(base, <<>>) ELSE obj)

\* self._parent._path() of the parent of the node, and self._yang_name
ParentPath(parent) == IF parent = "leaflist" THEN <<"p", "tl">> ELSE <<"p">>
yang_name == "n"

\* YANGBaseClass._register_path
YANGBaseClass_register_path(call) ==
    IF call.register_path # <<>> THEN call.register_path
    ELSE IF call.parent # "none" THEN Append(ParentPath(call.parent), yang_name)
    ELSE <<>>

\* the registration that never takes the supplied path
YANGBaseClass_init_register_computed(idx, helper, call, id) ==
    IF call.is_container # "list" /\ call.parent # "leaflist" /\ helper
           /\ call.register_paths
    THEN register(idx, Append(ParentPath(call.parent), yang_name), id)
    ELSE idx

\* YANGBaseClass.__init__, the registration with the path helper
YANGBaseClass_init_register(idx, helper, call, id) ==
    IF call.is_container # "list" /\ call.parent # "leaflist"
    THEN IF helper
         THEN IF call.register_path = <<>>
              THEN IF call.register_paths
                   THEN register(idx, YANGBaseClass_register_path(call), id)
                   ELSE idx
              ELSE IF call.register_paths THEN register(idx, call.register_path, id)
                   ELSE idx
         ELSE idx
    ELSE idx

\* YANGDynClass(*args, base=, ...): type.__call__ runs YANGBaseClass.__new__ and
\* then YANGBaseClass.__init__ (_set() when an argument is given, the
\* registration, then the __init__ of the base type, which for int and
\* six.text_type is object.__init__: its TypeError on an argument is caught)
YANGDynClass(idx, helper, call, id) ==
    Bind(YANGBaseClass_new(call.base, call.args), LAMBDA obj :
        IF obj.err # "none" THEN [err |-> obj.err, node |-> NoBuilt, idx |-> idx]
        ELSE [err |-> "none",
              node |-> [val |-> obj.val, changed |-> Len(call.args) > 0, id |-> id],
              idx |-> YANGBaseClass_init_register(idx, helper, call, id)])

\* the calls the model makes
DynValues == {IntV("1"), StrV("1"), StrV("x"), None, ListV}
DynCalls ==
    {DynCall(b, a, "leaf", pk, rp, f) :
        b \in {"int", "str"}, a \in {<<>>} \cup {<<v>> : v \in DynValues},
        pk \in {"container", "leaflist", "none"}, rp \in {<<>>, <<"p", "n[k='1']">>},
        f \in BOOLEAN}
      \cup {DynCall("str", <<>>, k, "container", rp, f) :
                k \in {"list", "container"}, rp \in {<<>>, <<"p", "n[k='1']">>},
                f \in BOOLEAN}

\* YANGDynClass is called
DynBuild(call) ==
    /\ dyn.serial < MaxNodes
    /\ \E r \in {YANGDynClass(index, pathHelper, call, dyn.serial + 1)} :
          /\ dyn' = [call |-> call, err |-> r.err, node |-> r.node,
                     serial |-> IF r.err = "none" THEN dyn.serial + 1 ELSE dyn.serial]
          /\ index' = r.idx
    /\ UNCHANGED <<schema, pathHelper, nodes, members, last, rclass, made, tseq, xref,
                   memo, dec, hooks>>

(***************************************************************************)
(* The classes RestrictedClassType__inner has built, as lru_cache holds    *)
(* them.  memo.classes is the sequence of the classes in the order they    *)
(* were built; a class is named by its place in it.  Of a class:           *)
(*   base, builtin    : the place of the restricted class it was built on  *)
(*                      (0: none) and the built-in type under that         *)
(*   restriction_dict : the argument it was built with                     *)
(*   owner, hint      : _restricted_class_base is the list object made for *)
(*                      the class owner, whose items that class keeps in   *)
(*                      hint                                               *)
(*   attr_dict, attr_enum : _restriction_dict and _enumeration_dict as set *)
(*                      on the class (Unset: not set on it)                *)
(* memo.op is the last call: [name, cls, hit, err].                        *)
(***************************************************************************)
\* number of classes the model lets the factory build
MaxClasses == 3

Unset == <<>>
MemoOp(name, cls, hit, err) == [name |-> name, cls |-> cls, hit |-> hit, err |-> err]
NoMemo == [classes |-> <<>>, op |-> MemoOp("none", 0, FALSE, "none")]

\* six.text_type(base_type) without "<class '...'>"
current_restricted_class_type(classes, base, builtin) ==
    IF base = 0 THEN builtin ELSE "RestrictedClass"

\* the place of the class lru_cache holds for these arguments (0: none)
cached(classes, base, builtin, restriction_dict) ==
    LET hit == {i \in 1..Len(classes) :
                   /\ classes[i].base = base
                   /\ classes[i].builtin = builtin
                   /\ classes[i].restriction_dict = restriction_dict}
    IN  IF hit = {} THEN 0 ELSE CHOOSE i \in hit : TRUE

\* RestrictedClassType__inner(base_type=, restriction_dict=) under lru_cache: the
\* class held for equal arguments, or a new class; a class built on a restricted
\* class appends to the list of that class and takes the same list as its own
RestrictedClassType__inner(classes, base, builtin, restriction_dict) ==
    LET at == cached(classes, base, builtin, restriction_dict)
        n == Len(classes) + 1
        new == [base |-> base, builtin |-> builtin, restriction_dict |-> restriction_dict,
                owner |-> IF base = 0 THEN n ELSE classes[base].owner,
                hint |-> IF base = 0
                         THEN <<current_restricted_class_type(classes, base, builtin)>>
                         ELSE <<>>,
                attr_dict |-> Unset, attr_enum |-> NoEnum]
    IN  IF at # 0 THEN [classes |-> classes, cls |-> at, hit |-> TRUE]
        ELSE IF base = 0
        THEN [classes |-> Append(classes, new), cls |-> n, hit |-> FALSE]
        ELSE [classes |->
                  Append([classes EXCEPT ![classes[base].owner].hint =
                              Append(@, current_restricted_class_type(classes, base,
                                                                      builtin))],
                         new),
              cls |-> n, hit |-> FALSE]

\* RestrictedClass.__new__(self, val) of the class at place level, self being the
\* class at place cls: the attributes are set on self, the value is tested, and
\* base_type.__new__(self, val) runs the same of the class it was built on
RECURSIVE RestrictedClass_new_on(_, _, _, _)
RestrictedClass_new_on(classes, cls, level, val) ==
    Bind(RestrictedClass_new(RestrictedClassType(classes[level].builtin,
                                                 classes[level].restriction_dict), val),
         LAMBDA st :
           Bind([classes EXCEPT
                    ![cls].attr_dict = classes[level].restriction_dict,
                    ![cls].attr_enum = IF st.enum # NoEnum THEN st.enum ELSE @],
                LAMBDA set :
                  IF st.err # "none" THEN [classes |-> set, err |-> st.err]
                  ELSE IF classes[level].base = 0 THEN [classes |-> set, err |-> "none"]
                  ELSE RestrictedClass_new_on(set, cls, classes[level].base, val)))

\* what reading an attribute of a class gives: what is set on the class, or else
\* on the class it was built on
RECURSIVE restriction_dict_of(_, _)
restriction_dict_of(classes, cls) ==
    IF classes[cls].attr_dict # Unset \/ classes[cls].base = 0
    THEN classes[cls].attr_dict
    ELSE restriction_dict_of(classes, classes[cls].base)

RECURSIVE enumeration_dict_of(_, _)
enumeration_dict_of(classes, cls) ==
    IF classes[cls].attr_enum # NoEnum \/ classes[cls].base = 0
    THEN classes[cls].attr_enum
    ELSE enumeration_dict_of(classes, classes[cls].base)

restricted_class_base_of(classes, cls) == classes[classes[cls].owner].hint

\* the arguments the factory is called with, and the values the classes are
MemoDicts ==
    {<<RangeItem(<<"1..10", "20..max">>)>>, <<RangeItem(<<"-1..1">>)>>,
     <<DictKeyItem(<<Entry("a"), Entry("b"), Entry("c")>>)>>}
MemoValues == {IntV("1"), IntV("11"), StrV("a")}

\* a module calls RestrictedClassType with a built-in type or with a class built
MemoFactory(base, d) ==
    /\ IF base = 0 THEN TRUE ELSE BaseOf(d) = memo.classes[base].builtin
    /\ \E r \in {RestrictedClassType__inner(
                      memo.classes, base,
                      IF base = 0 THEN BaseOf(d) ELSE memo.classes[base].builtin, d)} :
          /\ Len(r.classes) <= MaxClasses
          /\ memo' = [classes |-> r.classes, op |-> MemoOp("factory", r.cls, r.hit, "none")]
    /\ UNCHANGED <<schema, pathHelper, nodes, members, index, last, rclass, made, tseq,
                   xref, dyn, dec, hooks>>

\* a class is called with a value
MemoConstruct(cls, v) ==
    /\ \E r \in {RestrictedClass_new_on(memo.classes, cls, cls, v)} :
          memo' = [classes |-> r.classes, op |-> MemoOp("call", cls, FALSE, r.err)]
    /\ UNCHANGED <<schema, pathHelper, nodes, members, index, last, rclass, made, tseq,
                   xref, dyn, dec, hooks>>

(***************************************************************************)
(* RestrictedPrecisionDecimalType: decimal.Decimal held to a number of     *)
(* fraction digits.  A Decimal is a sign, a coefficient and an exponent    *)
(* (never above 0 here: the texts of the model carry no exponent part, and *)
(* every coefficient stays far below the 28 digits of the context).        *)
(***************************************************************************)
\* most classes RestrictedPrecisionDecimalType is let to build
MaxDecClasses == 2

RECURSIVE Pow10(_)
Pow10(n) == IF n = 0 THEN 1 ELSE 10 * Pow10(n - 1)

DecimalV(neg, coef, exp) == [neg |-> neg, coef |-> coef, exp |-> exp]
FloatV(s) == [t |-> "float", s |-> s]

\* position of the first "." of a text (0: none)
DotAt(s) ==
    LET dots == {i \in 1..Len(s) : CharAt(s, i) = "."}
    IN  IF dots = {} THEN 0 ELSE CHOOSE i \in dots : \A j \in dots : i <= j

\* Decimal(text) for a text without sign: digits, with at most one "." among them
DecimalOfUnsigned(neg, s) ==
    Bind(DotAt(s), LAMBDA dot :
        LET whole == IF dot = 0 THEN s ELSE SubSeq(s, 1, dot - 1)
            frac == IF dot = 0 THEN "" ELSE SubSeq(s, dot + 1, Len(s))
        IN  IF /\ Len(whole) + Len(frac) > 0
               /\ Len(whole) = 0 \/ IsDigits(whole)
               /\ Len(frac) = 0 \/ IsDigits(frac)
            THEN [err |-> "none",
                  d |-> DecimalV(neg, DigitsValue(whole \o frac), 0 - Len(frac))]
            ELSE [err |-> "InvalidOperation", d |-> DecimalV(FALSE, 0, 0)])

\* decimal.Decimal(value): [err, d].  None is no number (TypeError), a list is
\* not a tuple of three (ValueError), a text that is no number is a
\* decimal.InvalidOperation, which is an ArithmeticError
Decimal(v) ==
    IF v.t = "none" THEN [err |-> "TypeError", d |-> DecimalV(FALSE, 0, 0)]
    ELSE IF v.t = "list" THEN [err |-> "ValueError", d |-> DecimalV(FALSE, 0, 0)]
    ELSE IF StartsWith(v.s, "-") THEN DecimalOfUnsigned(TRUE, SubSeq(v.s, 2, Len(v.s)))
    ELSE IF StartsWith(v.s, "+") THEN DecimalOfUnsigned(FALSE, SubSeq(v.s, 2, Len(v.s)))
    ELSE DecimalOfUnsigned(FALSE, v.s)

\* Decimal.quantize(exp) in the default context: the exponent of exp, the
\* coefficient rounded half to even, the sign kept
quantize(d, e) ==
    IF d.exp >= e.exp THEN DecimalV(d.neg, d.coef * Pow10(d.exp - e.exp), e.exp)
    ELSE Bind(Pow10(e.exp - d.exp), LAMBDA unit :
             LET quot == d.coef \div unit
                 rem == d.coef % unit
                 up == 2 * rem > unit \/ (2 * rem = unit /\ quot % 2 = 1)
             IN  DecimalV(d.neg, IF up THEN quot + 1 ELSE quot, e.exp))

\* int(precision): False is 0
int_precision(precision) == IF precision.t = "bool" THEN 0 ELSE int(precision.s).n

\* str(10.0 ** (-1.0 * n)) of the float Python computes, for n up to 4
float_precision(n) ==
    FloatV(CASE n = 0 -> "1.0" [] n = 1 -> "0.1" [] n = 2 -> "0.01"
             [] n = 3 -> "0.001" [] OTHER -> "0.0001")

\* the class statement of RestrictedPrecisionDecimal: _precision is a float
RestrictedPrecisionDecimal(precision) ==
    [arg |-> precision, key |-> int_precision(precision),
     precision |-> float_precision(int_precision(precision))]

\* RestrictedPrecisionDecimalType(precision) under lru_cache: False and 0 are
\* one key; the class held for the key, or a new class
RestrictedPrecisionDecimalType(classes, precision) ==
    LET hit == {i \in 1..Len(classes) : classes[i].key = int_precision(precision)}
    IN  IF hit # {} THEN [classes |-> classes, cls |-> CHOOSE i \in hit : TRUE]
        ELSE [classes |-> Append(classes, RestrictedPrecisionDecimal(precision)),
              cls |-> Len(classes) + 1]

\* RestrictedPrecisionDecimal.__new__(self, *args): [err, d]
RestrictedPrecisionDecimal_new(cls, args) ==
    IF cls.precision # None
    THEN IF Len(args) > 0
         THEN Bind(Decimal(args[1]), LAMBDA value :
                  IF value.err = "TypeError" THEN [value EXCEPT !.err = "ValueError"]
                  ELSE IF value.err # "none" THEN value
                  ELSE [err |-> "none",
                        d |-> quantize(value.d, Decimal(StrV(cls.precision.s)).d)])
         ELSE Decimal(IntV("0"))
    ELSE IF Len(args) > 0 THEN Decimal(args[1])
    ELSE Decimal(IntV("0"))

DecOp(name, cls, args, err, d) ==
    [name |-> name, cls |-> cls, args |-> args, err |-> err, d |-> d]
NoDec == [classes |-> <<>>, op |-> DecOp("none", 0, <<>>, "none", DecimalV(FALSE, 0, 0))]

\* the precisions and the values of the model
DecPrecisions == {NoObject, IntV("0"), IntV("1"), IntV("2")}
DecLiterals ==
    {StrV(s) : s \in {"1.25", "1.35", "1.345", "-0.125", "2.5", ".5", "7", "abc", "", "1.2.3"}}
        \cup {IntV("1"), None, ListV}

\* RestrictedPrecisionDecimalType(precision), precision=False the default
DecFactory(precision) ==
    /\ \E r \in {RestrictedPrecisionDecimalType(dec.classes, precision)} :
          /\ Len(r.classes) <= MaxDecClasses
          /\ dec' = [classes |-> r.classes,
                     op |-> DecOp("factory", r.cls, <<precision>>, "none",
                                  DecimalV(FALSE, 0, 0))]
    /\ UNCHANGED <<schema, pathHelper, nodes, members, index, last, rclass, made, tseq,
                   xref, dyn, memo, hooks>>

\* cls(*args) of a class the factory returned
DecConstruct(cls, args) ==
    /\ cls \in 1..Len(dec.classes)
    /\ \E r \in {RestrictedPrecisionDecimal_new(dec.classes[cls], args)} :
          dec' = [dec EXCEPT !.op = DecOp("construct", cls, args, r.err, r.d)]
    /\ UNCHANGED <<schema, pathHelper, nodes, members, index, last, rclass, made, tseq,
                   xref, dyn, memo, hooks>>

(***************************************************************************)
(* The specification.                                                      *)
(***************************************************************************)
Init ==
    /\ schema \in Schemas
    /\ pathHelper \in (IF schema = "tree" THEN {FALSE} ELSE BOOLEAN)
    /\ nodes = [n \in NodesOf(schema) |-> Fresh(n)]
    /\ members = <<>>
    /\ index = {}
    /\ last = Call("init", "root", None, NoObj, "none")
    /\ rclass = NoClass
    /\ made = NoMade
    /\ tseq = NoSeq
    /\ xref = NoWorld
    /\ dyn = NoNode
    /\ memo = NoMemo
    /\ dec = NoDec
    /\ hooks = TreeNodes

Next ==
    \/ \E f \in TreeLeaves, v \in TreeValues : SetLeaf(f, v)
    \/ \E f \in TreeNodes \ {"root"} : UnsetField(f)
    \/ \E n \in {"c", "d1"}, b \in BOOLEAN : SetPresent(n, b)
    \/ \E n \in SeqNodes, v \in SeqValues : SeqAppend(n, v)
    \/ \E n \in SeqNodes : SeqPop(n)
    \/ \E n \in SeqNodes, v \in SeqValues : SeqRemove(n, v)
    \/ \E n \in SeqNodes, i \in 1..MaxSeqLen : SeqDelItem(n, i)
    \/ \E k \in PosKeys(schema), u \in FreshUuids : AddPositional(k, u)
    \/ \E kw \in KwArgs(schema), u \in FreshUuids : AddKeyword(kw, u)
    \/ \E u \in FreshUuids : AddNothing(u)
    \/ \E obj \in NewItems(schema) \cup HeldItems, u \in FreshUuids : ListAppend(obj, u)
    \/ \E k \in PosKeys(schema) \cup HeldKeys : DeletePositional(k)
    \/ \E kw \in KwArgs(schema) : DeleteKeyword(kw)
    \/ \E k \in PosKeys(schema) \cup HeldKeys : DelItem(k)
    \/ \E i \in 1..Len(members), v \in {StrV("v")} : SetMemberLeaf(i, v)
    \/ \E i \in 1..Len(members), v \in KeyWrites(schema) : LoadMemberKey(i, v)

Spec == Init /\ [][Next]_vars

\* The restricted classes on their own: no instance tree is built.
InitTypes ==
    /\ schema = "tree"
    /\ pathHelper = FALSE
    /\ nodes = [n \in NodesOf(schema) |-> Fresh(n)]
    /\ members = <<>>
    /\ index = {}
    /\ last = Call("init", "root", None, NoObj, "none")
    /\ rclass = NoClass
    /\ made = NoMade
    /\ tseq = NoSeq
    /\ xref = NoWorld
    /\ dyn = NoNode
    /\ memo = NoMemo
    /\ dec = NoDec
    /\ hooks = TreeNodes

NextTypes ==
    \/ \E d \in RestrictionDicts : Factory(d)
    \/ \E v \in ValuesFor(rclass.base_type) : Construct(v)
    \/ ConstructEmpty

SpecTypes == InitTypes /\ [][NextTypes]_vars

\* One leaf-list on its own, under a root container with or without a path helper.
InitSeq ==
    /\ schema = "tree"
    /\ pathHelper \in BOOLEAN
    /\ nodes = [n \in NodesOf(schema) |-> Fresh(n)]
    /\ members = <<>>
    /\ index = {}
    /\ last = Call("init", "root", None, NoObj, "none")
    /\ rclass = NoClass
    /\ made = NoMade
    /\ tseq = NoSeq
    /\ xref = NoWorld
    /\ dyn = NoNode
    /\ memo = NoMemo
    /\ dec = NoDec
    /\ hooks = TreeNodes

NextSeq ==
    \/ \E a \in CandidateTuples, u \in BOOLEAN, vs \in ValueLists : TLBuild(a, u, vs)
    \/ \E v \in TLValues : TLAppend(v)
    \/ \E i \in 0..MaxSeqLen, v \in TLValues : TLInsert(i, v)
    \/ \E i \in 0..MaxSeqLen, v \in TLValues : TLSetItem(i, v)
    \/ \E vs \in ValueLists : TLExtend(vs)

SpecSeq == InitSeq /\ [][NextSeq]_vars

\* A leafref and the nodes its path can name, with or without a path helper.
InitRef ==
    /\ schema = "tree"
    /\ pathHelper = FALSE
    /\ nodes = [n \in NodesOf(schema) |-> Fresh(n)]
    /\ members = <<>>
    /\ index = {}
    /\ last = Call("init", "root", None, NoObj, "none")
    /\ rclass = NoClass
    /\ made = NoMade
    /\ tseq = NoSeq
    /\ xref \in {[NoWorld EXCEPT !.helper = h] : h \in BOOLEAN}
    /\ dyn = NoNode
    /\ memo = NoMemo
    /\ dec = NoDec
    /\ hooks = TreeNodes

NextRef ==
    \/ \E p \in RefPaths, ri \in BOOLEAN, args \in {<<>>} \cup {<<v>> : v \in RefValues} :
          RefBuild(p, ri, args)
    \/ \E v \in RefValues : TargetSet(v)
    \/ \E v \in RefValues : KeyAdd(v)
    \/ \E i \in 1..Len(xref.keys), v \in RefValues : KeyLoad(i, v)
    \/ \E v \in RefValues : LLAppend(v)

SpecRef == InitRef /\ [][NextRef]_vars

\* Leafrefs to leaves, while the leaves are set and list members come and go.
NextLeaf ==
    \/ \E p \in LeafPaths, ri \in BOOLEAN, args \in {<<>>} \cup {<<v>> : v \in RefValues} :
          RefBuild(p, ri, args)
    \/ \E v \in RefValues : TargetSet(v)
    \/ \E v \in RefValues : KeyAdd(v)
    \/ \E i \in 1..Len(xref.keys) : KeyDel(i)
    \/ \E i \in 1..Len(xref.keys), v \in RefValues : MemberSet(i, v)

SpecLeaf == InitRef /\ [][NextLeaf]_vars

\* Nodes built by YANGDynClass on their own, with or without a path helper.
NextNode == \E call \in DynCalls : DynBuild(call)

SpecNode == InitSeq /\ [][NextNode]_vars

\* The static tree alone, with every call that changes a node of it.
NextTree ==
    \/ \E f \in TreeLeaves, v \in TreeValues : SetLeaf(f, v)
    \/ \E f \in TreeNodes \ {"root"} : UnsetField(f)
    \/ \E n \in {"c", "d1"}, b \in BOOLEAN : SetPresent(n, b)
    \/ \E n \in SeqNodes, v \in SeqValues : SeqAppend(n, v)
    \/ \E n \in SeqNodes : SeqPop(n)
    \/ \E n \in SeqNodes, v \in SeqValues : SeqRemove(n, v)
    \/ \E n \in SeqNodes, i \in 1..MaxSeqLen : SeqDelItem(n, i)
    \/ \E n \in SeqNodes, i \in 0..MaxSeqLen, v \in SeqValues : SeqInsert(n, i, v)
    \/ \E n \in SeqNodes, i \in 0..MaxSeqLen, v \in SeqValues : SeqSetItem(n, i, v)
    \/ \E n \in SeqNodes, vs \in SeqValueLists : SeqExtend(n, vs)

SpecTree == InitTypes /\ [][NextTree]_vars

\* The static tree of a class that lacks the unset method of one field in a choice.
Unmapped == {"l3", "l4", "lq"}

InitChoice ==
    /\ schema = "tree"
    /\ pathHelper = FALSE
    /\ nodes = [n \in NodesOf(schema) |-> Fresh(n)]
    /\ members = <<>>
    /\ index = {}
    /\ last = Call("init", "root", None, NoObj, "none")
    /\ rclass = NoClass
    /\ made = NoMade
    /\ tseq = NoSeq
    /\ xref = NoWorld
    /\ dyn = NoNode
    /\ memo = NoMemo
    /\ dec = NoDec
    /\ hooks \in {TreeNodes \ {f} : f \in Unmapped}

NextChoice ==
    \/ \E f \in TreeLeaves, v \in TreeValues : SetLeaf(f, v)
    \/ \E f \in TreeNodes \ {"root"} : UnsetField(f)
    \/ \E n \in {"c", "d1"}, b \in BOOLEAN : SetPresent(n, b)

SpecChoice == InitChoice /\ [][NextChoice]_vars

\* The factory of restricted classes and its cache, and the classes called.
NextMemo ==
    \/ \E base \in 0..Len(memo.classes), d \in MemoDicts : MemoFactory(base, d)
    \/ \E cls \in 1..Len(memo.classes), v \in MemoValues : MemoConstruct(cls, v)

SpecMemo == InitTypes /\ [][NextMemo]_vars

\* RestrictedPrecisionDecimalType and the classes it returns
NextDec ==
    \/ \E precision \in DecPrecisions : DecFactory(precision)
    \/ \E cls \in 1..MaxDecClasses, v \in DecLiterals : DecConstruct(cls, <<v>>)
    \/ \E cls \in 1..MaxDecClasses : DecConstruct(cls, <<>>)

SpecDec == InitTypes /\ [][NextDec]_vars

TypeOK ==
    /\ schema \in Schemas
    /\ pathHelper \in BOOLEAN
    /\ DOMAIN nodes = NodesOf(schema)
    /\ \A i, j \in 1..Len(members) : members[i].k = members[j].k => i = j

(***************************************************************************)
(* Properties.                                                             *)
(***************************************************************************)
KeyNames == LET kn == keyname(schema) IN IF kn = "" THEN <<>> ELSE split(kn)

\* C1: a call that constructs a member (add, append) and fails leaves the path
\* helper with exactly the entries it held before the call.
C1_FailedConstructionRegistersNothing ==
    [][(last'.op \in {"add", "append"} /\ last'.err # "none") => index' = index]_vars

C3_RemovalLeavesNoDanglingPath ==
    (last.op = "delitem" /\ last.err = "none") => \A e \in index : e.id # Gone

IsSet(st, f) == st[f].changed

Ancestors(n) == {a \in TreeNodes : n \in Descendants(a)}

\* C4: a node whose changed flag is raised has its parent's flag raised too: tree
\* nodes, list members under their list, node elements under their leaf-list.
C4_ChangedReachesParent ==
    /\ \A n \in DOMAIN nodes :
          (nodes[n].changed /\ Parent(n) # NoParent) => nodes[Parent(n)].changed
    /\ \A i \in 1..Len(members) : members[i].changed => nodes["lst"].changed
    /\ \A n \in DOMAIN nodes :
          (Kind(n) = "leaflist" /\ \E i \in 1..Len(nodes[n].val) : nodes[n].val[i].node)
              => nodes[n].changed

C4_Witness ==
    /\ schema = "tree"
    /\ last.op = "append" /\ last.err = "none" /\ last.k = IntV("1")
    /\ nodes["ll"].changed /\ nodes["c"].changed /\ nodes["root"].changed

\* fields f and g of one container lie in different cases of one choice, at some
\* nesting level
OtherCase(f, g) ==
    /\ Parent(f) = Parent(g)
    /\ \E l \in 1..Len(ChoiceOf(f).choices) :
          /\ l <= Len(ChoiceOf(g).choices)
          /\ Prefix(ChoiceOf(f).choices, l) = Prefix(ChoiceOf(g).choices, l)
          /\ Prefix(ChoiceOf(f).cases, l) # Prefix(ChoiceOf(g).cases, l)

\* C5: at most one case of a choice holds set fields; right after a field is set,
\* every field of every other case, at each nesting level, is a default node and
\* every ancestor of the field is marked changed.
C5_ChoiceExclusive ==
    /\ \A f, g \in DOMAIN nodes :
          OtherCase(f, g) => ~(IsSet(nodes, f) /\ IsSet(nodes, g))
    /\ (last.op = "set_leaf" /\ last.err = "none")
          => /\ \A g \in DOMAIN nodes : OtherCase(last.n, g) => nodes[g] = Fresh(g)
             /\ \A a \in Ancestors(last.n) : nodes[a].changed

\* setting a field of the nested case (a, x) evicted a field of the outer case b
C5_Witness ==
    /\ last.op = "set_leaf" /\ last.err = "none"
    /\ Len(ChoiceOf(last.n).choices) = 2
    /\ \E g \in last.evicted :
          Len(ChoiceOf(g).choices) = 1 /\ OtherCase(last.n, g)
C7_DeleteAbsentRefused ==
    [][(last'.op = "delete" /\ last'.k # None /\ ~HasKey(members, last'.k))
       => (/\ last'.err = "KeyError"
           /\ members' = members /\ index' = index /\ nodes' = nodes)]_vars

\* an absent key was refused by a list that holds another member
C7_Witness ==
    /\ last.op = "delete" /\ last.err = "KeyError"
    /\ last.k # None /\ ~HasKey(members, last.k)
    /\ Len(members) > 0 /\ pathHelper /\ index # {}

\* C8: an append that returns stores a member under the key derived from the
\* object, whose key leaves read what the object's key leaves read; the list
\* grows by one when the key was not held and keeps its size when it was.
C8_AppendStoresUnderDerivedKey ==
    [][(last'.op = "append" /\ last'.n = "lst" /\ last'.err = "none")
       => (/\ HasKey(members', last'.k)
           /\ \A i \in 1..Len(KeyNames) :
                 get_leaf(Member(members', last'.k).leaves, KeyNames[i])
                     = get_leaf(last'.obj.leaves, KeyNames[i])
           /\ Len(members') = IF HasKey(members, last'.k)
                              THEN Len(members) ELSE Len(members) + 1)]_vars

\* the key a member's key leaves derive: the leaf's own value for one key leaf, the
\* text forms joined by single spaces for several
DerivedKey(leaves) ==
    IF Len(KeyNames) = 1 THEN get_leaf(leaves, KeyNames[1])
    ELSE StrV(DropLast(joined_leaves(KeyNames, leaves)))

\* C9: every member of a keyed list is held under the key its key leaves derive:
\* the leaf's value in its native type, or the space-joined text forms.
C9_KeyIsNativeLeafValue ==
    \A i \in 1..Len(members) :
        Len(KeyNames) > 0 => members[i].k = DerivedKey(members[i].leaves)

KeysOf(d) == [i \in 1..Len(d) |-> d[i].k]

Pos(ks, k) == CHOOSE i \in 1..Len(ks) : ks[i] = k

\* C10: get() maps each held key to its member's export, in insertion order: over
\* any call the surviving keys keep their relative order, and a key that was not
\* held before comes after them all.
C10_GetKeepsInsertionOrder ==
    [][LET old == KeysOf(YANGList_get)
           new == KeysOf(YANGList_get')
           O == {old[i] : i \in 1..Len(old)}
           N == {new[i] : i \in 1..Len(new)}
       IN /\ N = {members'[i].k : i \in 1..Len(members')}
          /\ Len(new) = Cardinality(N)
          /\ \A i \in 1..Len(new) :
                YANGList_get'[i].v = Member(members', new[i]).leaves
          /\ \A a, b \in O \cap N :
                Pos(old, a) < Pos(old, b) => Pos(new, a) < Pos(new, b)
          /\ \A a \in N \ O, b \in O \cap N : Pos(new, b) < Pos(new, a)]_vars

\* an append under the first of two held keys updated it in place
C10_Witness ==
    /\ last.op = "append" /\ last.n = "lst" /\ last.err = "none"
    /\ Len(members) = 2
    /\ YANGList_get[1].k = last.k
\* the path of a member as its current key leaves give it
CurrentPath(m) ==
    <<list_yang_name(schema)
        \o path_keystring(KeyNames,
                          [n \in LeafNames |-> text_type(get_leaf(m.leaves, n))])>>

\* C11: every member of a keyed list reports the list's path with the predicate
\* built from the member's current key-leaf values, also after a key leaf of the
\* member has changed.
C11_MemberPathFollowsKeyLeaves ==
    \A i \in 1..Len(members) :
        Len(KeyNames) > 0 => members[i].path = CurrentPath(members[i])

(***************************************************************************)
(* Properties of the restricted classes (checked under SpecTypes).         *)
(***************************************************************************)
Dict == rclass.restriction_dict
Called == made.op = "call" /\ made.val # None

\* the tests the class holds once __new__ has read the restriction dictionary
TestsOf(cls) == RestrictedClass_new(cls, None).tests

\* C12: a class with more than one restriction category accepts a value exactly
\* when the value passes at least one of its tests; passing one test and failing
\* another is enough.
C12_OnePassingTestSuffices ==
    (Called /\ Len(Dict) > 1)
        => (made.err = "none"
               <=> \E i \in 1..Len(TestsOf(rclass)) : test(TestsOf(rclass)[i], made.val))

\* what each sub-spec of the model asks of a number
SubSpecHolds(spec, n) ==
    CASE spec = "1..10" -> 1 <= n /\ n <= 10
      [] spec = "20..max" -> 20 <= n
      [] spec = "min..0" -> n <= 0
      [] spec = "2" -> n = 2
      [] spec = "-1..1" -> (0 - 1) <= n /\ n <= 1
      [] spec = "1..2" -> 1 <= n /\ n <= 2
      [] spec = "3" -> n = 3
      [] spec = "1" -> n = 1
      [] spec = "3..max" -> 3 <= n

\* what a range measures of a value, and what a length does
Measure(item, val) == IF item.rtype = "length" THEN Len(val.s) ELSE int(val.s).n

\* C13: a class with one range or one length restriction accepts a value exactly when
\* the value satisfies at least one sub-spec: low..high includes both bounds, min and
\* max leave a side open, a single value asks for equality (so 1..10,20..max accepts
\* 1, 10, 20 and 1000000 and rejects 0, 11 and 19).
C13_RangeIsUnionOfSubSpecs ==
    (/\ Called
     /\ Len(Dict) = 1
     /\ \/ Dict[1].rtype = "range" /\ Dict[1].specs \in RangeArgs /\ made.val.t = "int"
        \/ Dict[1].rtype = "length" /\ Dict[1].specs \in LengthArgs)
        => (made.err = "none"
               <=> \E i \in 1..Len(Dict[1].specs) :
                      SubSpecHolds(Dict[1].specs[i], Measure(Dict[1], made.val)))

C13_Witness ==
    /\ Called
    /\ Dict = <<RangeItem(<<"1..10", "20..max">>)>>
    /\ made.val = IntV("1000000")
    /\ made.err = "none"

\* the j-th (from 0) natural number that no entry claims
NthUnclaimed(used, j) ==
    LET free == (0..(j + Cardinality(used))) \ used
    IN  CHOOSE n \in free : Cardinality({m \in free : m < n}) = j

\* C14: the entries with a value keep it, and the entries without one receive, in
\* declaration order, the successive naturals from 0 that no entry claims.
C14_EnumerationNumbering ==
    (made.op = "call" /\ Len(Dict) = 1 /\ Dict[1].rtype = "dict_key")
        => LET kept == DropAt(Dict[1].entries)
               used == {kept[i].value : i \in {j \in 1..Len(kept) : kept[j].has}}
           IN  /\ Len(made.enum) = Len(kept)
               /\ \A i \in 1..Len(kept) :
                     /\ made.enum[i].k = kept[i].k
                     /\ made.enum[i].value =
                           IF kept[i].has THEN kept[i].value
                           ELSE NthUnclaimed(used,
                                    Cardinality({j \in 1..(i - 1) : ~kept[j].has}))

\* a restriction dictionary RestrictedClass.__new__ cannot read
Malformed(d) ==
    \E i \in 1..Len(d) :
        \/ d[i].rtype \notin {"pattern", "range", "length", "dict_key"}
        \/ d[i].specs \in MalformedArgs

\* C15: RestrictedClassType returns no class for a restriction dictionary with an
\* unsupported category or a malformed sub-spec, so no call of a class fails for it.
C15_MalformedDictionaryGivesNoClass ==
    rclass # NoClass => ~Malformed(Dict)

\* re.fullmatch(p, s), an embedded $ of p read as the character
WholeMatch(p, s) ==
    LET alts == Alternatives(Tokens(EscapeDollars(p), 1), <<>>)
    IN  \E i \in 1..Len(alts) : Len(s) \in Ends(alts[i], s, {0})

\* C16: the classes built from p, ^p, p$ and ^p$ accept the same texts, and a text
\* is accepted only when the whole of it matches p.
C16_PatternMatchesWholeText ==
    (Called /\ Len(Dict) = 1 /\ Dict[1].rtype = "pattern")
        => \E p \in Patterns :
              /\ Dict[1].pattern \in Anchorings(p)
              /\ \A q \in Anchorings(p) :
                    RestrictedClass(RestrictedClassType("str", <<PatternItem(q)>>),
                                    made.val).err = made.err
              /\ made.err = "none" => WholeMatch(p, made.val.s)

(***************************************************************************)
(* Properties of the leaf-list built on its own (checked under SpecSeq).   *)
(***************************************************************************)
\* whether the type t can be constructed from v: str(v), int(v), restricted_class(v)
Constructs(t, v) ==
    IF t = "str" THEN TRUE
    ELSE IF t = "int" THEN v.t = "int" \/ int(v.s).ok
    ELSE RestrictedClass(restricted_class, v).err = "none"

\* the first candidate that satisfies F, 0 when none does
FirstOf(allowed, F(_)) ==
    IF \E i \in 1..Len(allowed) : F(allowed[i])
    THEN CHOOSE i \in 1..Len(allowed) :
            F(allowed[i]) /\ \A j \in 1..(i - 1) : ~F(allowed[j])
    ELSE 0

\* a call that hands one value to the leaf-list, and where the value would be put
OneValueCall(ts) == ts.op.name \in {"append", "insert", "setitem"}
Slot(before, after) ==
    IF after.op.name = "append" \/ after.op.at > Len(before.list)
    THEN Len(before.list) + 1
    ELSE after.op.at + 1
Refused(before, v) == before.unique /\ InList(before.list, v)

\* C17 as claimed: the element stored is the one made by the first candidate that v
\* is an instance of or that can be constructed from v.
C17_FirstConstructingCandidateWins ==
    [][(OneValueCall(tseq') /\ ~Refused(tseq, tseq'.op.vals[1]))
          => LET v == tseq'.op.vals[1]
                 first == FirstOf(tseq.allowed, LAMBDA t : v.t = t \/ Constructs(t, v))
             IN  first # 0
                    => /\ tseq'.op.err = "none"
                       /\ tseq'.list[Slot(tseq, tseq')].base = tseq.allowed[first]]_vars

\* whether candidate t takes v: v is an instance of it, or it is not the text type and
\* can be constructed from v
Takes(t, v) == v.t = t \/ (t # "str" /\ Constructs(t, v))

\* C17 amended: the element stored is the one made by the first candidate that v is
\* an instance of, or that is not the text type and can be constructed from v; a
\* candidate that fails is passed over, later candidates are not looked at, and the
\* call fails when no candidate takes v.
C17_FirstTakingCandidateWins ==
    [][(OneValueCall(tseq') /\ ~Refused(tseq, tseq'.op.vals[1]))
          => LET v == tseq'.op.vals[1]
                 first == FirstOf(tseq.allowed, LAMBDA t : Takes(t, v))
             IN  IF first = 0
                 THEN tseq'.op.err = "ValueError" /\ tseq'.list = tseq.list
                 ELSE /\ tseq'.op.err = "none"
                      /\ Len(tseq'.list) = Len(tseq.list) + 1
                      /\ tseq'.list[Slot(tseq, tseq')].base = tseq.allowed[first]]_vars

\* the text "1" was appended to a leaf-list over (int, str): int made the element
C17_Witness ==
    /\ tseq.allowed = <<"int", "str">>
    /\ tseq.op = Op("append", <<StrV("1")>>, 0, "none")
    /\ tseq.list[Len(tseq.list)].base = "int"

NoneTakes(allowed, v) == \A i \in 1..Len(allowed) : ~Takes(allowed[i], v)

\* C18 as claimed: a call (append, insert, extend, item assignment) that hands over a
\* value no candidate takes fails with ValueError and leaves the list as it was.
C18_RefusedCallChangesNothing ==
    [][(/\ tseq'.op.name \in {"append", "insert", "setitem", "extend"}
        /\ \E i \in 1..Len(tseq'.op.vals) : NoneTakes(tseq.allowed, tseq'.op.vals[i]))
          => tseq'.op.err = "ValueError" /\ tseq'.list = tseq.list]_vars

\* C18 amended: append, insert and item assignment of a value no candidate takes fail
\* with ValueError and leave the list as it was; extend fails with ValueError as well
\* and keeps the list it had, followed by no more elements than there are values
\* before the first one that no candidate takes.
C18_RefusedValueIsNotStored ==
    [][(/\ tseq'.op.name \in {"append", "insert", "setitem", "extend"}
        /\ \E i \in 1..Len(tseq'.op.vals) : NoneTakes(tseq.allowed, tseq'.op.vals[i]))
          => LET vals == tseq'.op.vals
                 bad == CHOOSE i \in 1..Len(vals) :
                           /\ NoneTakes(tseq.allowed, vals[i])
                           /\ \A j \in 1..(i - 1) : ~NoneTakes(tseq.allowed, vals[j])
             IN  /\ tseq'.op.err = "ValueError"
                 /\ Len(tseq'.list) <= Len(tseq.list) + (bad - 1)
                 /\ SubSeq(tseq'.list, 1, Len(tseq.list)) = tseq.list
                 /\ \A i \in 1..Len(tseq'.list) : tseq'.list[i].val # vals[bad]]_vars

\* a leaf-list over (int,) that holds 1 has just refused "x"
C18_Witness ==
    /\ tseq.allowed = <<"int">>
    /\ tseq.op = Op("append", <<StrV("x")>>, 0, "ValueError")
    /\ Len(tseq.list) = 1
    /\ tseq.list[1].val = IntV("1")

\* C19 as claimed: in uniqueness mode every call that hands over a value equal to
\* one the list holds fails with an error.
C19_DuplicateRaises ==
    [][(/\ tseq.unique
        /\ tseq'.op.name \in {"append", "insert", "setitem", "extend"}
        /\ \E i \in 1..Len(tseq'.op.vals) : InList(tseq.list, tseq'.op.vals[i]))
          => tseq'.op.err = "ValueError"]_vars

\* C19 amended: in uniqueness mode a call whose values all equal values the list
\* holds (compared as supplied, before any cast) leaves the list as it was: insert
\* and item assignment raise ValueError, append and extend return silently; and a
\* list built from twice the same value holds it once when the element made of it
\* equals it, and twice when the element is a cast that differs from it.
C19_DuplicateIsNotStored ==
    [][/\ (/\ tseq.unique
           /\ tseq'.op.name \in {"append", "insert", "setitem", "extend"}
           /\ Len(tseq'.op.vals) > 0
           /\ \A i \in 1..Len(tseq'.op.vals) : InList(tseq.list, tseq'.op.vals[i]))
             => /\ tseq'.list = tseq.list
                /\ (tseq'.op.err = "ValueError")
                      <=> (tseq'.op.name \in {"insert", "setitem"})
       /\ (/\ tseq'.unique
           /\ tseq'.op.name = "init"
           /\ Len(tseq'.op.vals) = 2
           /\ tseq'.op.vals[1] = tseq'.op.vals[2])
             => /\ tseq'.op.err = "none"
                /\ Len(tseq'.list) = IF tseq'.list[1].val = tseq'.op.vals[1] THEN 1 ELSE 2]_vars

\* a unique leaf-list that holds one value has just refused to insert it again
C19_Witness ==
    /\ tseq.unique
    /\ tseq.op.name = "insert"
    /\ tseq.op.err = "ValueError"
    /\ Len(tseq.list) = 1
    /\ InList(tseq.list, tseq.op.vals[1])

\* C20: every element of the leaf-list is a node with the path tl[.='<value>'], and
\* with a path helper attached the helper holds an entry under that path.
C20_ElementsAreRegisteredNodes ==
    \A i \in 1..Len(tseq.list) :
        LET e == tseq.list[i]
        IN  /\ e.node
            /\ e.path = "tl[.='" \o e.val.s \o "']"
            /\ pathHelper => \E r \in index : r.path = <<e.path>>

(***************************************************************************)
(* Properties of the leafref.                                              *)
(***************************************************************************)
\* the nodes the path of the leafref names now
Target == path_helper_get(xref, xref.ref.cls.referenced_path)

\* the path of the leafref named one node when it was built, and that node is
\* neither the key leaf of a list nor a list or leaf-list
SinglePlainTarget ==
    /\ xref.ref # NoRef /\ xref.ref.helper /\ xref.ref.hits = 1
    /\ Len(Target) = 1 /\ ~Target[1].keyval /\ ~is_yang_list(Target[1])

\* C21: a leafref whose path named exactly one node, neither a key leaf nor a
\* list or leaf-list, when it was built, with or without an initial value, reads
\* as the value its target holds now, however the target was set since.
C21_PointerReadsCurrentTarget ==
    SinglePlainTarget =>
        ReferencePathType_get(xref, xref.ref) = [err |-> "none", val |-> Target[1].val]

\* the nodes a leafref can point to or look at
Targets(w) == <<w.leaf, w.top, w.keys, w.vals, w.ll>>

\* C22: building a leafref with the value v that becomes a pointer sets its target
\* to v through the accessor of the target's parent, so that the target reads v
\* and it and its parent are changed; a leafref that is no pointer, and one whose
\* construction fails, writes no node.
C22_PointerWritesTarget ==
    [][xref'.op.name = "build" =>
          IF xref'.ref.ptr
          THEN /\ Len(xref'.op.args) = 1
               /\ ReferencePathType_get(xref', xref'.ref).val = xref'.op.args[1]
               /\ IF xref'.ref.cls.referenced_path = "/a"
                  THEN /\ xref'.leaf = [val |-> xref'.op.args[1], changed |-> TRUE]
                       /\ xref'.top
                       /\ xref'.vals = xref.vals
                  ELSE /\ xref'.vals = <<xref'.op.args[1]>>
                       /\ <<xref'.leaf, xref'.top>> = <<xref.leaf, xref.top>>
               /\ <<xref'.keys, xref'.ll>> = <<xref.keys, xref.ll>>
          ELSE Targets(xref') = Targets(xref)]_vars

\* a pointer was built with a value its target did not hold
C22_Witness ==
    /\ xref.op.name = "build" /\ xref.ref.ptr
    /\ xref.leaf = [val |-> StrV("y"), changed |-> TRUE]
    /\ xref.op.args = <<StrV("y")>>

\* the nodes the call that built the leafref searched: the elements of a single
\* leaf-list, otherwise the nodes the path named before the call
Searched ==
    LET path_chk == path_helper_get(xref, xref'.op.cls.referenced_path)
    IN  IF Len(path_chk) = 1 /\ is_yang_leaflist(path_chk[1]) THEN path_chk[1].elems
        ELSE [i \in 1..Len(path_chk) |-> path_chk[i].val]

\* a leafref is built with a value, require-instance and a path helper
RequiredBuild ==
    /\ xref'.op.name = "build" /\ xref'.op.cls.require_instance /\ xref.helper
    /\ Len(xref'.op.args) = 1

\* the call fails when nothing searched has the text of the value, and otherwise
\* leaves a leafref that is no pointer and holds a searched node with that text
MatchOrFail ==
    LET hit == {i \in 1..Len(Searched) :
                   text_type(Searched[i]) = text_type(xref'.op.args[1])}
    IN  IF hit = {} THEN xref'.op.err = "ValueError" /\ xref'.ref = NoRef
        ELSE /\ xref'.op.err = "none" /\ ~xref'.ref.ptr
             /\ \E i \in hit : xref'.ref.obj = Searched[i]

\* C23 as stated: with require-instance and a path helper, building a leafref
\* with the value v fails when no node the path names (no element, when it names
\* one leaf-list) has the text of v, and otherwise stores such a node.
C23_RequiredInstanceMatchesOrFails ==
    [][RequiredBuild => MatchOrFail]_vars

\* the path named exactly one node before the call, neither a key leaf nor a list
\* or leaf-list
NamedOnePlainLeaf ==
    LET path_chk == path_helper_get(xref, xref'.op.cls.referenced_path)
    IN  Len(path_chk) = 1 /\ ~path_chk[1].keyval /\ ~is_yang_list(path_chk[1])

\* C23 as amended: the same, unless the path names exactly one node that is
\* neither a key leaf nor a list or leaf-list; then the leafref is a pointer, the
\* value is written into that node and nothing is compared.
C23_RequiredInstanceMatchesUnlessPointer ==
    [][RequiredBuild =>
          IF NamedOnePlainLeaf
          THEN xref'.op.err = "none" /\ xref'.ref.ptr
               /\ path_helper_get(xref', xref'.op.cls.referenced_path)[1].val
                      = xref'.op.args[1]
          ELSE MatchOrFail]_vars

\* a leafref with require-instance was refused although its path named nodes
C23_Witness ==
    /\ xref.op.name = "build" /\ xref.op.cls.require_instance /\ xref.helper
    /\ xref.op.cls.referenced_path = "/l/k" /\ Len(xref.keys) = 2
    /\ xref.op.err = "ValueError"

\* the path of the leafref named one node when it was built and names one now,
\* the key leaf of a list member, and that key leaf is set through its accessor
KeyLeafReloaded ==
    /\ xref.ref # NoRef /\ xref.ref.helper /\ xref.ref.hits = 1
    /\ Len(Target) = 1 /\ Target[1].keyval
    /\ xref'.op.name = "load"

\* C24 as stated: a leafref whose path named exactly one node, the key leaf of a
\* list, reads as the new value after that key leaf is set through its accessor.
C24_KeyLeafIsPointer ==
    [][KeyLeafReloaded =>
          ReferencePathType_get(xref', xref'.ref) =
              [err |-> "none", val |-> xref'.keys[1]]]_vars

\* C24 as amended: such a leafref is no pointer; it reads as what it stored when
\* it was built, before and after the key leaf is set.
C24_KeyLeafIsSnapshot ==
    [][KeyLeafReloaded =>
          /\ ~xref'.ref.ptr
          /\ ReferencePathType_get(xref', xref'.ref) =
                 [err |-> "none", val |-> xref.ref.obj]
          /\ xref'.ref.obj = xref.ref.obj]_vars

\* a leafref that found its value in the one key leaf, which then got another
C24_Witness ==
    /\ xref.ref # NoRef /\ xref.ref.helper /\ xref.ref.hits = 1
    /\ xref.ref.cls.require_instance /\ xref.ref.cls.referenced_path = "/l/k"
    /\ xref.op.name = "load" /\ Len(xref.keys) = 1
    /\ xref.keys[1] # xref.ref.obj /\ xref.ref.obj \in RefValues

\* C25: two leafrefs are equal exactly when their referenced paths are equal,
\* whatever they hold, pointer or not, and whatever their require-instance
\* flags; equal leafrefs have equal hashes.  The two leafrefs are the one held
\* before a leafref is built and the one built.
C25_EqualIffSamePath ==
    [][(xref'.op.name = "build" /\ xref.ref # NoRef /\ xref'.ref # NoRef) =>
          /\ ReferencePathType_eq(xref.ref, xref'.ref, FALSE)
                 <=> (xref.ref.cls.referenced_path = xref'.ref.cls.referenced_path)
          /\ ReferencePathType_eq(xref.ref, xref'.ref, FALSE)
                 => (ReferencePathType_hash(xref.ref) = ReferencePathType_hash(xref'.ref))
          /\ ReferencePathType_eq(xref'.ref, xref'.ref, TRUE)]_vars

(***************************************************************************)
(* Properties of the cache of restricted classes.                          *)
(***************************************************************************)
\* what can be read of a class: its restrictions, its enumeration, its hints
Observable(classes, cls) ==
    <<restriction_dict_of(classes, cls), enumeration_dict_of(classes, cls),
      restricted_class_base_of(classes, cls)>>

\* C26: a factory call with arguments it was called with before returns the class
\* it returned then, and no factory call (one that builds a class on a restricted
\* class included) and no call of a class changes what can be read of a class
\* built before: its restrictions, its enumeration, its list of base-type hints.
C26_DescriptorsAreMemoisedAndImmutable ==
    [][/\ \A cls \in 1..Len(memo.classes) :
             Observable(memo'.classes, cls) = Observable(memo.classes, cls)
       /\ (memo'.op.name = "factory" /\ memo'.op.hit) =>
             /\ memo'.op.cls \in 1..Len(memo.classes)
             /\ Len(memo'.classes) = Len(memo.classes)]_vars

(***************************************************************************)
(* Properties of the nodes of the static tree.                             *)
(***************************************************************************)
\* the calls that change a node
MutatingOps ==
    {"set_leaf", "append", "pop", "remove", "insert", "setitem", "extend", "set_present"}

\* C27: after each call that changes a node and succeeds (a node built with a
\* value, item assignment, append, insert, remove, extend, pop, and presence set
\* to True) the changed flag of that node is true.
C27_MutationSetsChanged ==
    [][(/\ last'.op \in MutatingOps
        /\ last'.err = "none"
        /\ last'.op = "set_present" => last'.k = StrV("True"))
          => nodes'[last'.n].changed]_vars

\* an item was assigned in a leaf-list that nothing had changed before, the
\* element being a plain cast
C27_Witness ==
    /\ last.op = "setitem" /\ last.err = "none" /\ last.k = StrV("1")
    /\ nodes["ll"].changed /\ Len(nodes["ll"].val) = 1

\* a presence container whose presence is not set reads as not present,
\* whatever its children hold
InactiveReadsAbsent(st) ==
    \A n \in TreeNodes :
        (Kind(n) = "container" /\ Presence(n) /\ ~st[n].cpresent)
            => YANGBaseClass_present(st, n) = StrV("False")

\* C29: _set_present(True) on a presence container sets its presence and leaves
\* it and all its ancestors changed; a presence container whose presence is not
\* set reads as not present even when its children hold values; _set_present on
\* a node that is no container fails and changes no flag.
C29_PresenceActivation ==
    [][/\ (last'.op = "set_present" /\ Kind(last'.n) # "container")
             => (last'.err = "AttributeError" /\ nodes' = nodes)
       /\ (/\ last'.op = "set_present" /\ Kind(last'.n) = "container"
           /\ Presence(last'.n) /\ last'.k = StrV("True") /\ last'.err = "none")
             => /\ nodes'[last'.n].cpresent
                /\ YANGBaseClass_present(nodes', last'.n) = StrV("True")
                /\ \A a \in Ancestors(last'.n) \cup {last'.n} : nodes'[a].changed
       /\ InactiveReadsAbsent(nodes')]_vars

\* the presence container was populated and then had its presence taken away
C29_WitnessInactive ==
    /\ last.op = "set_present" /\ last.n = "c" /\ last.k = StrV("False")
    /\ ~nodes["c"].cpresent /\ nodes["l3"].val # None
    /\ YANGBaseClass_present(nodes, "c") = StrV("False")

\* presence was set on the fresh presence container
C29_Witness ==
    /\ last.op = "set_present" /\ last.n = "c" /\ last.k = StrV("True")
    /\ nodes["c"].cpresent /\ nodes["root"].changed
    /\ \A f \in TreeLeaves : nodes[f].val = None

(***************************************************************************)
(* Properties of YANGDynClass called on its own.                           *)
(***************************************************************************)
\* C28: when the constructor of the base type fails on the value given, with
\* whatever exception, a TypeError included, YANGDynClass fails with that
\* exception and returns no node: none that holds the default of the base type.
C28_BaseFailurePropagates ==
    [][(/\ Len(dyn'.call.args) = 1
        /\ base_type_new(dyn'.call.base, dyn'.call.args).err # "none")
          => /\ dyn'.err = base_type_new(dyn'.call.base, dyn'.call.args).err
             /\ dyn'.node = NoBuilt]_vars

\* the path of the node a call builds: the path supplied, or else the path of
\* the parent and the name of the node (the empty path, without a parent)
NodePath(call) ==
    IF call.register_path # <<>> THEN call.register_path
    ELSE IF call.parent = "none" THEN <<>>
    ELSE ParentPath(call.parent) \o <<"n">>

\* the step builds a node while a path helper is attached
BuiltWithHelper == dyn'.serial # dyn.serial /\ dyn'.err = "none" /\ pathHelper

\* C30 as stated: a node built with a path helper, neither a list nor an element
\* of a leaf-list, is held by the path helper under its path, the supplied one
\* when one is given; a list and an element of a leaf-list register nothing.
C30_ConstructionRegistersNode ==
    [][BuiltWithHelper =>
          IF dyn'.call.is_container # "list" /\ dyn'.call.parent # "leaflist"
          THEN [path |-> NodePath(dyn'.call), id |-> dyn'.node.id] \in index'
          ELSE index' = index]_vars

\* C30 as amended: the same for a node built with register_paths set; a node
\* built with register_paths unset registers nothing either.
C30_ConstructionRegistersUnlessSwitchedOff ==
    [][BuiltWithHelper =>
          IF /\ dyn'.call.is_container # "list" /\ dyn'.call.parent # "leaflist"
             /\ dyn'.call.register_paths
          THEN [path |-> NodePath(dyn'.call), id |-> dyn'.node.id] \in index'
          ELSE index' = index]_vars

\* a second node was built with a supplied path and replaced the first under it
C30_Witness ==
    /\ pathHelper /\ dyn.err = "none" /\ dyn.node.id = 2
    /\ dyn.call.register_path = <<"p", "n[k='1']">>
    /\ index = {[path |-> <<"p", "n[k='1']">>, id |-> 2]}

(***************************************************************************)
(* Properties of RestrictedPrecisionDecimalType.                           *)
(***************************************************************************)
\* the last step called a class of the factory with one value
DecBuilt == dec.op.name = "construct" /\ Len(dec.op.args) = 1

\* d is the number lit held to p fraction digits: p digits after the point,
\* the sign of lit, and no number of p digits nearer to lit
RoundedTo(d, lit, p) ==
    LET s == IF p > 0 - lit.exp THEN p ELSE 0 - lit.exp
    IN  /\ d.exp = 0 - p
        /\ d.neg = lit.neg
        /\ LET diff == d.coef * Pow10(s - p) - lit.coef * Pow10(s + lit.exp)
           IN  2 * diff <= Pow10(s - p) /\ 2 * diff >= 0 - Pow10(s - p)

\* C31: a class of precision p (1 and more fraction digits) called with a text
\* or number that Decimal reads returns it rounded to p fraction digits, and
\* called with anything else fails with ValueError, as a restriction does.
C31_RoundsOrInvalidValue ==
    (DecBuilt /\ dec.classes[dec.op.cls].key >= 1)
        => IF Decimal(dec.op.args[1]).err = "none"
           THEN /\ dec.op.err = "none"
                /\ RoundedTo(dec.op.d, Decimal(dec.op.args[1]).d,
                             dec.classes[dec.op.cls].key)
           ELSE dec.op.err = "ValueError"

\* a and b are the same number, whatever their exponents
SameNumber(a, b) ==
    LET m == IF a.exp < b.exp THEN a.exp ELSE b.exp
    IN  /\ a.coef * Pow10(a.exp - m) = b.coef * Pow10(b.exp - m)
        /\ a.coef = 0 \/ a.neg = b.neg

\* C32: a class built with the default precision=False rounds nothing: it
\* returns Decimal(value), every fraction digit kept.
C32_NoPrecisionOnlyCasts ==
    (DecBuilt /\ dec.classes[dec.op.cls].arg = NoObject
              /\ Decimal(dec.op.args[1]).err = "none")
        => dec.op.err = "none" /\ SameNumber(dec.op.d, Decimal(dec.op.args[1]).d)

(***************************************************************************)
(* Properties of leafrefs to leaves that are set, added and deleted.       *)
(***************************************************************************)
\* the step builds a leafref with a value, and either there is no path helper,
\* or require-instance is unset and the path did not name one plain leaf
SnapshotBuild ==
    /\ xref'.op.name = "build" /\ Len(xref'.op.args) = 1
    /\ \/ ~xref.helper
       \/ ~xref'.op.cls.require_instance /\ ~NamedOnePlainLeaf

\* a leafref built that way: with a value, no pointer, and without a path helper
\* or without require-instance
SnapshotRef(ref) ==
    /\ ref # NoRef /\ ref.changed /\ ~ref.ptr
    /\ ~ref.helper \/ ~ref.cls.require_instance

\* C33: a leafref built with the value v without a path helper, or without
\* require-instance when it is no pointer, holds v whatever the path names, and
\* reads as v after every later step that sets, adds or deletes a node.
C33_SnapshotKeepsValue ==
    [][IF xref'.op.name = "build"
       THEN SnapshotBuild =>
               /\ xref'.op.err = "none" /\ SnapshotRef(xref'.ref)
               /\ Targets(xref') = Targets(xref)
               /\ ReferencePathType_get(xref', xref'.ref) =
                      [err |-> "none", val |-> xref'.op.args[1]]
       ELSE SnapshotRef(xref.ref) =>
               ReferencePathType_get(xref', xref'.ref) =
                   ReferencePathType_get(xref, xref.ref)]_vars

\* a leafref holds x, stored without a look at the tree, and the one leaf its
\* path names now holds y
C33_Witness ==
    /\ xref.helper /\ SnapshotRef(xref.ref) /\ xref.ref.obj = StrV("x")
    /\ xref.ref.cls.referenced_path = "/l/v" /\ xref.vals = <<StrV("y")>>
    /\ xref.op.name = "delete"

\* C40: while a leafref is a pointer it stays one through every step that sets,
\* adds or deletes a node; read after the step it fails with ValueError when its
\* path does not name exactly one node, and returns what that node holds when
\* the path names exactly one.
C40_PointerReadFailsUnlessOneTarget ==
    [][(xref.ref.ptr /\ xref'.op.name # "build") =>
          /\ xref'.ref.ptr
          /\ Bind(path_helper_get(xref', xref'.ref.cls.referenced_path), LAMBDA now :
                IF Len(now) = 1
                THEN ReferencePathType_get(xref', xref'.ref) =
                         [err |-> "none", val |-> now[1].val]
                ELSE ReferencePathType_get(xref', xref'.ref).err = "ValueError")]_vars

\* a pointer whose path names one node again after it had named none
C40_Witness ==
    /\ xref.ref.ptr /\ xref.ref.cls.referenced_path = "/l/v"
    /\ xref.op.name = "add" /\ Len(xref.vals) = 1

(***************************************************************************)
(* Properties of the changed flag and the presence of the tree.            *)
(***************************************************************************)
\* C34: a call that changes what a list or a leaf-list holds (add, append,
\* delete and del on the list; append, insert, remove, extend, pop and del on the
\* leaf-list) leaves that node and every ancestor of it changed.
C34_MembershipChangeSetsChanged ==
    [][/\ (/\ last'.n = "lst" /\ last'.err = "none"
           /\ last'.op \in {"add", "append", "delete", "delitem"}
           /\ KeysOf(members') # KeysOf(members))
             => (nodes'["lst"].changed /\ nodes'["root"].changed)
       /\ (/\ last'.n \in TreeNodes /\ Kind(last'.n) = "leaflist" /\ last'.err = "none"
           /\ last'.op \in {"append", "insert", "remove", "extend", "pop", "delitem"}
           /\ nodes'[last'.n].val # nodes[last'.n].val)
             => \A a \in Ancestors(last'.n) \cup {last'.n} : nodes'[a].changed]_vars

\* the fields the parent of n looks up when n is set, the first of them that has
\* no unset method (0: every one has), and the nodes replaced before it is met
ParentEvicts(n) == EvictSeq(Parent(n), ChoiceOf(n))
FirstUnmapped(n) ==
    LET seq == ParentEvicts(n)
        miss == {i \in 1..Len(seq) : ~hasattr_unset(seq[i])}
    IN  IF miss = {} THEN 0 ELSE CHOOSE i \in miss : \A j \in miss : i <= j
EvictedBefore(n) ==
    UNION {Descendants(ParentEvicts(n)[i]) \cup {ParentEvicts(n)[i]} :
              i \in 1..(FirstUnmapped(n) - 1)}

\* the step sets a leaf, or the presence of a container, whose parent has to
\* evict a field that has no unset method
UnmappedSet ==
    /\ \/ last'.op = "set_leaf"
       \/ last'.op = "set_present" /\ Kind(last'.n) = "container"
                                   /\ last'.k = StrV("True")
    /\ FirstUnmapped(last'.n) > 0

\* C35 as stated: such a call fails with AttributeError("unmapped choice!") and
\* leaves every node as it was: no field is evicted and no flag is changed.
C35_UnmappedChoiceAtomic ==
    [][UnmappedSet => (last'.err = "AttributeError" /\ nodes' = nodes)]_vars

\* C35 as amended: such a call fails with AttributeError; the fields the parent
\* visited before the one without unset method (inner nesting level first) are
\* evicted, a leaf that was being set keeps its old node, a container whose
\* presence was being set keeps the flags the call raised on it, and no other
\* node, neither the parent nor an ancestor, is touched.
C35_UnmappedChoiceKeepsEvictions ==
    [][UnmappedSet =>
          /\ last'.err = "AttributeError"
          /\ \A m \in EvictedBefore(last'.n) : nodes'[m] = Fresh(m)
          /\ \A m \in DOMAIN nodes \ (EvictedBefore(last'.n) \cup {last'.n}) :
                nodes'[m] = nodes[m]
          /\ nodes'[last'.n] =
                IF last'.op = "set_leaf" THEN nodes[last'.n]
                ELSE [nodes[last'.n] EXCEPT !.changed = TRUE, !.cpresent = TRUE]]_vars

\* setting l4 evicted l1, which held a value, and then failed on l3, which has
\* no unset method
C35_Witness ==
    /\ hooks = TreeNodes \ {"l3"}
    /\ last.op = "set_leaf" /\ last.n = "l4" /\ last.err = "AttributeError"
    /\ last.evicted = {"l1"} /\ nodes["l4"] = Fresh("l4")

\* C36: a call on a leaf-list node (append, insert, extend, remove, pop, item
\* assignment) that fails because no type takes the value, the value to remove
\* is not held or the list is empty leaves the changed flag of the node and of
\* every ancestor as it was.
C36_FailedMutationKeepsChanged ==
    [][(/\ last'.op \in {"append", "insert", "extend", "remove", "pop", "setitem"}
        /\ last'.n \in TreeNodes /\ Kind(last'.n) = "leaflist"
        /\ last'.err \in {"ValueError", "IndexError"})
          => \A a \in Ancestors(last'.n) \cup {last'.n} :
                nodes'[a].changed = nodes[a].changed]_vars

(***************************************************************************)
(* Properties of the uniqueness mode of the leaf-list.                     *)
(***************************************************************************)
\* C37 as claimed: in uniqueness mode the elements of the leaf-list are pairwise
\* distinct, whatever the calls that filled it and whatever the values handed over,
\* the text "1" handed to a list over int that holds 1 included.
C37_UniqueElementsDistinct ==
    tseq.unique =>
        \A i, j \in 1..Len(tseq.list) :
            i # j => tseq.list[i].val # tseq.list[j].val

\* the element is the value it was made of, not a coercion of another value
StoredAsSupplied(e) == e.given = e.val

\* C37 amended: in uniqueness mode two elements of the leaf-list are equal only if
\* at least one of them was made by coercing a value that differs from it (the text
\* "1" made into 1); elements stored as they were supplied are pairwise distinct,
\* and distinct from every element stored before them.
C37_UniqueAsSupplied ==
    tseq.unique =>
        \A i, j \in 1..Len(tseq.list) :
            (i # j /\ tseq.list[i].val = tseq.list[j].val)
                => ~StoredAsSupplied(tseq.list[i]) \/ ~StoredAsSupplied(tseq.list[j])

\* a unique leaf-list over (int,) holds 1 twice: the 1 it was built from, and the
\* cast of the text "1" that insert has just stored
C37_Witness ==
    /\ tseq.unique
    /\ tseq.allowed = <<"int">>
    /\ tseq.op.name = "insert"
    /\ tseq.op.vals = <<StrV("1")>>
    /\ tseq.op.err = "none"
    /\ Len(tseq.list) = 2
    /\ tseq.list[1].val = IntV("1")
    /\ tseq.list[2].val = IntV("1")
    /\ \E i \in 1..2 : StoredAsSupplied(tseq.list[i])

(***************************************************************************)
(* Properties of the changed and presence flags over a whole run.          *)
(***************************************************************************)
\* the fields whose node the call replaces by a newly constructed one: the field an
\* unset method is called for and what lies under it, the leaf that is assigned,
\* and the fields evicted by _set() on the way from the node to the root
EvictedOnTheWay(n) ==
    UNION {UNION {Descendants(ParentEvicts(x)[i]) \cup {ParentEvicts(x)[i]} :
                     i \in 1..Len(ParentEvicts(x))} :
              x \in {y \in Ancestors(n) \cup {n} : Parent(y) # NoParent}}
ReplacedBy(call) ==
    IF call.n \notin TreeNodes THEN {}
    ELSE IF call.op = "unset" THEN Descendants(call.n) \cup {call.n}
    ELSE IF call.op = "set_leaf" THEN EvictedOnTheWay(call.n) \cup {call.n}
    ELSE EvictedOnTheWay(call.n)

\* node n holds what its constructor left when no value was given
AsConstructed(st, mem, n) == st[n] = Fresh(n) /\ (n = "lst" => mem = <<>>)

\* C38: the changed flag of a node is false only while the node is as its
\* constructor left it without a value, no mutation having run on it; and no call
\* (assignment, eviction, presence deactivation, list delete) takes a raised flag
\* back: where a field reads unchanged after a call that found it changed, the
\* call has replaced its node by a newly constructed one.
C38_ChangedIsMonotone ==
    [][/\ \A n \in DOMAIN nodes' :
             ~nodes'[n].changed => AsConstructed(nodes', members', n)
       /\ \A n \in DOMAIN nodes :
             (nodes[n].changed /\ ~nodes'[n].changed)
                => (n \in ReplacedBy(last') /\ nodes'[n] = Fresh(n))]_vars

\* the step is a call that went through and mutates node n: a leaf is assigned, a
\* presence is activated, an element is put into or taken out of a leaf-list
Mutates(n) ==
    /\ last'.n = n /\ last'.err = "none"
    /\ \/ last'.op \in {"set_leaf", "append", "insert", "extend", "setitem",
                        "remove", "pop", "delitem"}
       \/ last'.op = "set_present" /\ last'.k = StrV("True")

\* C39: after a mutation of a node, every ancestor declared with presence reports
\* present, also when its presence had been deactivated before, and every ancestor
\* not declared with presence has the presence flag it had.
C39_MutationActivatesPresence ==
    [][\A n \in TreeNodes :
          Mutates(n) =>
              \A a \in Ancestors(n) :
                  IF Presence(a)
                  THEN YANGBaseClass_present(nodes', a) = StrV("True")
                  ELSE nodes'[a].cpresent = nodes[a].cpresent]_vars

=========================================================================
